---------------------------- MODULE Spec2Model ----------------------------
(***************************************************************************)
(* A model of the database-access middleware of aipan-netdisk-search:      *)
(*   - PrismaPool            (src/lib/prisma-pool.ts)                      *)
(*   - PrismaManager         (src/lib/prisma-client.ts)                    *)
(*   - ConcurrencyController (src/lib/concurrency.ts)                      *)
(*   - QueryCache            (src/lib/cache.ts)                            *)
(*   - PersistenceManager    (src/lib/persistence.ts)                      *)
(* Node runs every callback to its next await without interruption, so an  *)
(* action of the model is one such run-to-completion segment.              *)
(***************************************************************************)
EXTENDS Integers, Sequences, FiniteSets, TLC

(***************************************************************************)
(* Bounds of the model.                                                    *)
(***************************************************************************)
\* number of acquire() calls issued against the pool
MaxAcquire == 3
\* number of add() calls made on the concurrency controller
MaxTasks == 4
\* the priorities of tasks run from 0 to MaxPriority
MaxPriority == 1
\* the controller's maxConcurrent is between 1 and MaxConcurrent
MaxConcurrent == 2
\* number of get() and set() calls made on the cache
MaxCalls == 3
\* the clock of the cache runs from 1 to MaxCacheTime
MaxCacheTime == 3
\* the clock runs from 1 to MaxTime
MaxTime == 6
\* number of initializePrisma() calls
MaxInit == 3
\* number of operations issued through a managed client
MaxOps == 2
\* the args of an operation nest up to MaxNesting objects under the args object
MaxNesting == 5
\* number of callers that save a value and load it again, one after the other
MaxRoundTrips == 2
\* calls made on a cache with refresh timers, the timers' callbacks included
MaxRefreshCalls == 2

VARIABLES
    \* ---- PrismaPool ----
    now,            \* Date.now()
    clients,        \* this.clients: sequence of {client, lastActive, acquiredAt};
                    \* releasedAt is history, not a field of the code: when
                    \* release() put the client into the idle set it is in
                    \* (0 for a client that is on loan or was never acquired)
    activeClients,  \* this.activeClients
    idleClients,    \* this.idleClients, in insertion order (a JS Set iterates so)
    waitingQueue,   \* this.waitingQueue: sequence of QueueItem
    stats,          \* this.stats
    initPc,         \* initializeMinConnections: "pending" until Promise.all settles
    created,        \* number of PrismaClient objects constructed so far
    acq,            \* the acquire() calls: position, result, timer
    maint,          \* the maintenance() run in flight, if any
    viaManager,     \* TRUE when the pool is the one PrismaManager owns
    closing,        \* close(): its position and the clients it disconnects
    \* ---- ConcurrencyController ----
    maxConcurrent,  \* this.maxConcurrent
    running,        \* this.running
    queue,          \* this.queue: sequence of PrioritizedTask
    task,           \* the add() calls: position of the task, its promise
    \* ---- QueryCache and PersistenceManager ----
    cache,          \* this.cache: the LRUCache's entries, least recently used first
    hitCounter,     \* this.hitCounter
    missCounter,    \* this.missCounter
    persistence,    \* TRUE when this.persistenceManager is set
    files,          \* the files of the persistence directory
    call,           \* the get() and set() calls made on the cache
    storedAt,       \* history: when each key was last stored in this.cache
    touchedAt,      \* history: when each key was last stored in or served from it
    warmupPromise,  \* this.warmupPromise: "null", or the state of the promise
    warm,           \* the warm-up specs, sorted, and how far each one is
    refreshIntervals, \* this.refreshIntervals: the timer of each key, 0 for none
    timers,         \* the setInterval() timers of the cache that are not cleared
    \* ---- prisma-client.ts ----
    prismaClient,   \* _prismaClient, 0 for null
    connections,    \* the PrismaClient objects whose $connect() has succeeded
    init,           \* the initializePrisma() calls
    managerStats,   \* PrismaManager.stats, and the events the manager has emitted
    op,             \* the operations issued through a client of getClient()
    \* ---- PersistenceManager used on its own ----
    maxFileSize,    \* this.maxFileSize
    rt              \* the callers that save a value and load it again

poolVars == <<now, clients, activeClients, idleClients, waitingQueue, stats,
              initPc, created, acq, maint, viaManager, closing>>

ccVars == <<maxConcurrent, running, queue, task>>

warmupVars == <<warmupPromise, warm>>

\* the refresh timers of setupRefreshInterval()
refreshVars == <<refreshIntervals, timers>>

cacheVars == <<cache, hitCounter, missCounter, persistence, files, call,
               storedAt, touchedAt, warmupVars, refreshVars>>

\* prisma-client.ts: the module's client and the calls of initializePrisma()
initVars == <<prismaClient, connections, init>>

\* prisma-client.ts: the PrismaManager's statistics and its clients' operations
managerVars == <<managerStats, op>>

\* persistence.ts: a PersistenceManager and its direct callers
persistVars == <<maxFileSize, rt>>

vars == <<poolVars, ccVars, cacheVars, initVars, managerVars, persistVars>>

\* what an action of the pool, and one of the controller, leaves alone
notPool == <<ccVars, cacheVars, initVars, managerVars, persistVars>>
notCC == <<poolVars, cacheVars, initVars, managerVars, persistVars>>
notInit == <<poolVars, ccVars, cacheVars, managerVars, persistVars>>
notManager == <<poolVars, ccVars, cacheVars, initVars, persistVars>>
notPersistence == <<poolVars, ccVars, initVars, managerVars, cache, hitCounter,
                    missCounter, persistence, call, storedAt, touchedAt, warmupVars,
                    refreshVars>>
\* the pool's part of what an action of the cache leaves alone
notRefresh == <<clients, activeClients, idleClients, waitingQueue, stats,
                initPc, created, acq, maint, viaManager, closing, initVars, managerVars, persistVars>>
\* the same with the refresh timers, which get() and set() do not touch
notCache == <<notRefresh, refreshVars>>

Max(a, b) == IF a >= b THEN a ELSE b
Min(a, b) == IF a <= b THEN a ELSE b

(***************************************************************************)
(* PrismaPool                                                              *)
(***************************************************************************)

\* The pool's options. The defaults of the constructor are min 1, max 10 and
\* timeouts in milliseconds; the model uses a small pool and a clock whose unit
\* is the maintenance interval. A $connect() or $disconnect() under way ends
\* within the unit it began in.
options == [min |-> 1, max |-> 1, idleTimeout |-> 2, acquireTimeout |-> 1,
            leakDetectionThreshold |-> 1]

\* constructor, lines 71-74: the period of the maintenance timer
maintenanceInterval == Min(options.idleTimeout \div 2, 30000)

Acquires == 1..MaxAcquire

\* A PrismaClient object; $extends() returns another object over the same
\* connection.
PrismaClient(n) == [id |-> n, ext |-> FALSE]
Extends(c) == [c EXCEPT !.ext = TRUE]

NoClient == [id |-> 0, ext |-> FALSE]

\* The two functions the Promise constructor hands to its executor, and the
\* two arrow functions acquire() stores in the QueueItem: four distinct
\* function objects per call.
PromiseFn(r) == [kind |-> "promise", call |-> r]
WrapperFn(r) == [kind |-> "wrapper", call |-> r]

QueueItem(r, startTime) ==
    [resolve |-> WrapperFn(r), reject |-> WrapperFn(r), timestamp |-> startTime]

\* the elements of a set of numbers in increasing order
RECURSIVE SetToSeq(_)
SetToSeq(S) ==
    IF S = {} THEN <<>>
    ELSE LET m == CHOOSE x \in S : \A y \in S : x <= y
         IN <<m>> \o SetToSeq(S \ {m})

\* Array.prototype.findIndex and find: the first of the indices that match,
\* 0 for -1 and for undefined
FirstIndex(matching) ==
    IF matching = {} THEN 0
    ELSE CHOOSE i \in matching : \A j \in matching : i <= j

\* this.clients.find(c => c.client === client)
FindClientInfo(cls, c) ==
    FirstIndex({i \in 1..Len(cls) : cls[i].client = c})

\* Set.prototype.delete on the insertion-ordered idle set
SetDelete(s, c) == SelectSeq(s, LAMBDA x : x # c)

\* Set.prototype.add on the insertion-ordered idle set
SetAdd(s, c) == IF \E i \in 1..Len(s) : s[i] = c THEN s ELSE Append(s, c)

Queued(q, r) == \E i \in 1..Len(q) : q[i].resolve.call = r
InQueue(r) == Queued(waitingQueue, r)

\* updateStats(): the counts are recomputed from the collections
updateStats(st, act, idl, cls) ==
    [st EXCEPT !.active = Cardinality(act),
               !.idle = Len(idl),
               !.total = Len(cls),
               !.maxUsed = Max(st.maxUsed, Cardinality(act))]

\* Array.prototype.shift / pop
pop(q) == [item |-> q[Len(q)], rest |-> SubSeq(q, 1, Len(q) - 1)]
shift(q) == [item |-> Head(q), rest |-> Tail(q)]

\* acquire(): the idle client is removed from the idle set
acquire_keepIdle(idl, c) == idl
acquire_idleDelete(idl, c) == SetDelete(idl, c)

InitPool ==
    /\ now = 1
    /\ clients = <<>>
    /\ activeClients = {}
    /\ idleClients = <<>>
    /\ waitingQueue = <<>>
    /\ stats = [active |-> 0, idle |-> 0, waiting |-> 0, total |-> 0,
                maxUsed |-> 0, leakedConnections |-> 0]
    /\ initPc = "pending"
    /\ created = options.min
    /\ acq = [r \in Acquires |->
                [pc |-> "new", client |-> NoClient, start |-> 0,
                 timer |-> "none", ahead |-> 0, releases |-> 0, since |-> 0]]
    /\ maint = [pc |-> "idle", now |-> 0, snapshot |-> <<>>,
                next |-> 1 + maintenanceInterval]
    /\ closing = [pc |-> "open", clients |-> {}]

\* initializeMinConnections(): Promise.all over min createClient() calls has
\* settled (lines 79-90). The constructor built the clients 1..min; createClient()
\* returns null for one whose $connect() failed, and the nulls are skipped.
\* connected is the set of those that connected.
InitializeMinConnections(connected) ==
    /\ initPc = "pending"
    /\ LET ids == SetToSeq(connected)
           idl == idleClients \o [i \in 1..Len(ids) |-> PrismaClient(ids[i])]
           cls == clients \o [i \in 1..Len(ids) |->
                                [client |-> PrismaClient(ids[i]), lastActive |-> now,
                                 acquiredAt |-> 0, releasedAt |-> 0]]
       IN /\ idleClients' = idl
          /\ clients' = cls
          /\ stats' = updateStats(stats, activeClients, idl, cls)
    /\ initPc' = "done"
    /\ UNCHANGED <<now, activeClients, waitingQueue, created, acq, maint, viaManager, closing>>
    /\ UNCHANGED notPool

\* acquire(), from its call to its first await or its return.
Acquire(r) ==
    /\ acq[r].pc = "new"
    /\ \A q \in Acquires : q < r => acq[q].pc # "new"
    /\ IF idleClients # <<>>
       THEN \* lines 123-135: hand out the first idle client
            LET idleClient == Head(idleClients)
                i == FindClientInfo(clients, idleClient)
                cls == IF i = 0 THEN clients
                       ELSE [clients EXCEPT ![i].acquiredAt = now, ![i].lastActive = now,
                                            ![i].releasedAt = 0]
                idl == acquire_idleDelete(idleClients, idleClient)
                act == activeClients \cup {idleClient}
            IN /\ clients' = cls
               /\ idleClients' = idl
               /\ activeClients' = act
               /\ stats' = updateStats(stats, act, idl, cls)
               /\ acq' = [acq EXCEPT ![r].pc = "held", ![r].client = idleClient,
                                     ![r].since = now]
               /\ UNCHANGED <<waitingQueue, created>>
       ELSE IF Len(clients) < options.max
       THEN \* lines 137-138: await this.createClient()
            /\ acq' = [acq EXCEPT ![r].pc = "creating",
                                  ![r].client = PrismaClient(created + 1)]
            /\ created' = created + 1
            /\ UNCHANGED <<clients, idleClients, activeClients, waitingQueue, stats>>
       ELSE \* lines 151-180: queue the request and arm its timer
            /\ waitingQueue' = Append(waitingQueue, QueueItem(r, now))
            /\ stats' = [stats EXCEPT !.waiting = Len(waitingQueue) + 1]
            /\ acq' = [acq EXCEPT ![r].pc = "waiting", ![r].start = now,
                                  ![r].timer = "armed",
                                  ![r].ahead = Len(waitingQueue)]
            /\ UNCHANGED <<clients, idleClients, activeClients, created>>
    /\ UNCHANGED <<now, initPc, maint, viaManager, closing>>
    /\ UNCHANGED notPool

\* acquire() resumes after createClient(): lines 139-148.
AcquireCreated(r, connected) ==
    /\ acq[r].pc = "creating"
    /\ IF connected
       THEN LET client == acq[r].client
                cls == Append(clients, [client |-> client, lastActive |-> now,
                                        acquiredAt |-> now, releasedAt |-> 0])
                act == activeClients \cup {client}
            IN /\ clients' = cls
               /\ activeClients' = act
               /\ stats' = updateStats(stats, act, idleClients, cls)
               /\ acq' = [acq EXCEPT ![r].pc = "held", ![r].since = now]
       ELSE /\ acq' = [acq EXCEPT ![r].pc = "rejected", ![r].client = NoClient]
            /\ UNCHANGED <<clients, activeClients, stats>>
    /\ UNCHANGED <<now, idleClients, waitingQueue, initPc, created, maint, viaManager, closing>>
    /\ UNCHANGED notPool

\* The resolve wrapper of a QueueItem, lines 161-170: it clears the timer,
\* stamps the client's info and resolves the waiting acquire() with the client.
\* since is the history of the loan: when the caller was given the client.
ResolveWaiter(a, r, c) ==
    [a EXCEPT ![r] = [pc |-> "held", client |-> c, start |-> 0, timer |-> "none",
                      ahead |-> 0, releases |-> 0, since |-> now]]

\* The reject wrapper of a QueueItem, lines 171-174.
RejectWaiter(a, r) ==
    [a EXCEPT ![r] = [pc |-> "rejected", client |-> NoClient, start |-> 0,
                      timer |-> "none", ahead |-> 0, releases |-> 0,
                      since |-> 0]]

\* The requests in the queue see one more release of a client on loan.
CountRelease(a) ==
    [r \in Acquires |->
        IF InQueue(r) THEN [a[r] EXCEPT !.releases = @ + 1] ELSE a[r]]

\* release(client), lines 187-207; a is the state of the acquire() calls when
\* release is entered
release(client, a) ==
    IF client \in activeClients
    THEN IF waitingQueue # <<>>
         THEN \* lines 192-197: the client stays active and goes to the next request
              LET nextRequest == shift(waitingQueue).item
                  w == nextRequest.resolve.call
                  i == FindClientInfo(clients, client)
                  cls == IF i = 0 THEN clients
                         ELSE [clients EXCEPT ![i].acquiredAt = now]
              IN /\ waitingQueue' = shift(waitingQueue).rest
                 /\ clients' = cls
                 /\ stats' = [updateStats(stats, activeClients, idleClients, cls)
                                EXCEPT !.waiting = Len(waitingQueue) - 1]
                 /\ acq' = ResolveWaiter(a, w, client)
                 /\ UNCHANGED <<activeClients, idleClients>>
         ELSE \* lines 200-201; no field of the client's info is written
              LET act == activeClients \ {client}
                  idl == SetAdd(idleClients, client)
                  i == FindClientInfo(clients, client)
                  cls == IF i = 0 THEN clients
                         ELSE [clients EXCEPT ![i].releasedAt = now]
              IN /\ activeClients' = act
                 /\ idleClients' = idl
                 /\ clients' = cls
                 /\ stats' = updateStats(stats, act, idl, cls)
                 /\ acq' = a
                 /\ UNCHANGED waitingQueue
    ELSE /\ acq' = a
         /\ UNCHANGED <<clients, activeClients, idleClients, waitingQueue, stats>>

\* The handle the caller of acquire() r holds: the pooled client itself, or,
\* from PrismaManager.getClient() (prisma-client.ts lines 130-193), the object
\* client.$extends(...) returned.
Handle(r) == IF viaManager THEN Extends(acq[r].client) ELSE acq[r].client

\* The caller of acquire() r gives its handle back: pool.release(handle), or
\* PrismaManager.releaseClient(handle), which calls pool.release(handle).
Release(r) ==
    /\ acq[r].pc = "held"
    /\ LET given == [acq EXCEPT ![r].pc = "released", ![r].client = NoClient,
                                ![r].since = 0]
       IN release(Handle(r),
                  IF Handle(r) = acq[r].client THEN CountRelease(given) ELSE given)
    /\ UNCHANGED <<now, initPc, created, maint, viaManager, closing>>
    /\ UNCHANGED notPool

\* The timer of acquire() r fires, lines 152-158: it looks its request up by
\* comparing the stored functions with the promise's own resolve and reject.
AcquireTimer(r) ==
    /\ acq[r].timer = "armed"
    /\ now - acq[r].start >= options.acquireTimeout
    /\ LET index == FirstIndex({i \in 1..Len(waitingQueue) :
                                   /\ waitingQueue[i].resolve = PromiseFn(r)
                                   /\ waitingQueue[i].reject = PromiseFn(r)})
       IN IF index # 0
          THEN /\ waitingQueue' = SubSeq(waitingQueue, 1, index - 1)
                                   \o SubSeq(waitingQueue, index + 1, Len(waitingQueue))
               /\ acq' = RejectWaiter(acq, r)
          ELSE /\ waitingQueue' = waitingQueue
               /\ acq' = [acq EXCEPT ![r].timer = "fired"]
    /\ UNCHANGED <<now, clients, activeClients, idleClients, stats, initPc, created,
                   maint, viaManager, closing>>
    /\ UNCHANGED notPool

\* maintenance(), lines 229-240: the clients held longer than the threshold
Leaked(cls, t) ==
    {i \in 1..Len(cls) : cls[i].acquiredAt # 0
                          /\ t - cls[i].acquiredAt > options.leakDetectionThreshold}

\* the test with the pool allowed to go one below min
Reclaimable_atMin(cls, c, t) ==
    LET i == FindClientInfo(cls, c)
    IN /\ i # 0
       /\ t - cls[i].lastActive > options.idleTimeout
       /\ Len(cls) >= options.min

\* maintenance(), lines 245-248: the test that sends an idle client to $disconnect()
Reclaimable(cls, c, t) ==
    LET i == FindClientInfo(cls, c)
    IN /\ i # 0
       /\ t - cls[i].lastActive > options.idleTimeout
       /\ Len(cls) > options.min

\* maintenance(), lines 244-254: the loop over the snapshot of the idle set runs
\* on to the next client it has to disconnect; that client heads the result.
RECURSIVE NextToDisconnect(_, _, _)
NextToDisconnect(snapshot, cls, t) ==
    IF snapshot = <<>> THEN <<>>
    ELSE IF Reclaimable(cls, Head(snapshot), t) THEN snapshot
    ELSE NextToDisconnect(Tail(snapshot), cls, t)

\* maintenance(), lines 257-267: the requests at the head of the queue that
\* have waited longer than acquireTimeout
RECURSIVE Expired(_, _)
Expired(q, t) ==
    IF q # <<>> /\ t - q[1].timestamp > options.acquireTimeout
    THEN 1 + Expired(shift(q).rest, t)
    ELSE 0

RECURSIVE RejectAll(_, _)
RejectAll(a, q) ==
    IF q = <<>> THEN a ELSE RejectAll(RejectWaiter(a, q[1].resolve.call), Tail(q))

\* maintenance() from the end of its idle loop to its return, lines 256-270
MaintenanceFinish(cls, idl, st, t) ==
    LET n == Expired(waitingQueue, t)
    IN /\ waitingQueue' = SubSeq(waitingQueue, n + 1, Len(waitingQueue))
       /\ acq' = RejectAll(acq, SubSeq(waitingQueue, 1, n))
       /\ stats' = updateStats(st, activeClients, idl, cls)

\* maintenance() from the loop position snapshot on: to the await of
\* $disconnect(), or to the end
MaintenanceRun(m, snapshot, cls, idl, st, t) ==
    LET rest == NextToDisconnect(snapshot, cls, t)
    IN /\ clients' = cls
       /\ idleClients' = idl
       /\ IF rest # <<>>
          THEN /\ maint' = [m EXCEPT !.pc = "disconnecting", !.now = t,
                                      !.snapshot = rest]
               /\ stats' = st
               /\ UNCHANGED <<waitingQueue, acq>>
          ELSE /\ maint' = [m EXCEPT !.pc = "idle", !.now = 0, !.snapshot = <<>>]
               /\ MaintenanceFinish(cls, idl, st, t)

\* The interval timer of the constructor (lines 71-74) calls maintenance().
Maintenance ==
    /\ maint.pc = "idle"
    /\ closing.pc = "open"
    /\ now >= maint.next
    /\ MaintenanceRun([maint EXCEPT !.next = @ + maintenanceInterval],
                      idleClients, clients, idleClients,
                      [stats EXCEPT !.leakedConnections =
                                       @ + Cardinality(Leaked(clients, now))],
                      now)
    /\ UNCHANGED <<now, activeClients, initPc, created, viaManager, closing>>
    /\ UNCHANGED notPool

\* maintenance() resumes after await client.$disconnect(), lines 250-252
MaintenanceDisconnected ==
    /\ maint.pc = "disconnecting"
    /\ LET client == Head(maint.snapshot)
       IN MaintenanceRun(maint, Tail(maint.snapshot),
                         SelectSeq(clients, LAMBDA c : c.client # client),
                         SetDelete(idleClients, client),
                         stats, maint.now)
    /\ UNCHANGED <<now, activeClients, initPc, created, viaManager, closing>>
    /\ UNCHANGED notPool

\* Time passes, once the timers that are due have fired and the connects and
\* disconnects under way have ended.
Tick ==
    /\ now < MaxTime
    /\ \A r \in Acquires :
          /\ acq[r].timer = "armed" => now - acq[r].start < options.acquireTimeout
          /\ acq[r].pc # "creating"
    /\ initPc = "done"
    /\ maint.pc = "idle"
    /\ closing.pc # "disconnecting"
    /\ closing.pc = "open" => now < maint.next
    /\ now' = now + 1
    /\ UNCHANGED <<clients, activeClients, idleClients, waitingQueue, stats, initPc,
                   created, acq, maint, viaManager, closing>>
    /\ UNCHANGED notPool

\* close() has disconnected the clients it found, lines 285-289
closed(disconnected) ==
    /\ closing' = [pc |-> "closed", clients |-> disconnected]
    /\ clients' = <<>>
    /\ activeClients' = {}
    /\ idleClients' = <<>>
    /\ waitingQueue' = <<>>
    /\ stats' = updateStats(stats, {}, <<>>, <<>>)

\* close(), lines 280-283: it stops the maintenance timer and awaits the
\* $disconnect() of every client of the list. Promise.all over no client is
\* settled at once, and close() goes on before any timer or connection.
Close ==
    /\ closing.pc = "open"
    /\ LET listed == {clients[i].client : i \in 1..Len(clients)}
       IN IF listed = {}
          THEN closed({})
          ELSE /\ closing' = [pc |-> "disconnecting", clients |-> listed]
               /\ UNCHANGED <<clients, activeClients, idleClients, waitingQueue, stats>>
    /\ UNCHANGED <<now, initPc, created, acq, maint, viaManager>>
    /\ UNCHANGED notPool

\* close() resumes after await Promise.all(...), lines 285-289
CloseDisconnected ==
    /\ closing.pc = "disconnecting"
    /\ closed(closing.clients)
    /\ UNCHANGED <<now, initPc, created, acq, maint, viaManager>>
    /\ UNCHANGED notPool

NextPool ==
    \/ \E connected \in SUBSET (1..options.min) : InitializeMinConnections(connected)
    \/ \E r \in Acquires : Acquire(r)
    \/ \E r \in Acquires : \E connected \in BOOLEAN : AcquireCreated(r, connected)
    \/ \E r \in Acquires : Release(r)
    \/ \E r \in Acquires : AcquireTimer(r)
    \/ Maintenance
    \/ MaintenanceDisconnected
    \/ Tick

(***************************************************************************)
(* ConcurrencyController                                                   *)
(***************************************************************************)

Tasks == 1..MaxTasks
Priorities == 0..MaxPriority

\* add(), line 32: this.queue.findIndex(item => item.priority < priority)
insertIndex_lowerOrEqual(q, priority) ==
    FirstIndex({i \in 1..Len(q) : q[i].priority <= priority})
insertIndex(q, priority) ==
    FirstIndex({i \in 1..Len(q) : q[i].priority < priority})

\* add(), lines 33-37: push, or splice(insertIndex, 0, prioritizedTask)
enqueue(q, prioritizedTask) ==
    LET i == insertIndex(q, prioritizedTask.priority)
    IN IF i = 0 THEN Append(q, prioritizedTask)
       ELSE SubSeq(q, 1, i - 1) \o <<prioritizedTask>> \o SubSeq(q, i, Len(q))

\* add(), line 16
atLimit_above(run) == run > maxConcurrent
atLimit(run) == run >= maxConcurrent

\* processQueue(), lines 54-61, entered with this.running = run and
\* this.queue = q: next.task() calls execute(), which counts the task as
\* running before its first await.
processQueue_noDispatch(run, q) == [started |-> {}, running |-> run, queue |-> q]
processQueue(run, q) ==
    IF Len(q) > 0 /\ run < maxConcurrent
    THEN [started |-> {Head(q).task}, running |-> run + 1, queue |-> Tail(q)]
    ELSE [started |-> {}, running |-> run, queue |-> q]

\* execute(), line 45, for the tasks in started
Started(tk, started) ==
    [u \in DOMAIN tk |->
        IF u \in started THEN [tk[u] EXCEPT !.pc = "running", !.runs = @ + 1]
        ELSE tk[u]]

InitCC ==
    /\ maxConcurrent \in 1..MaxConcurrent
    /\ running = 0
    /\ queue = <<>>
    /\ task = [t \in Tasks |->
                 [pc |-> "new", priority |-> 0, runs |-> 0, promise |-> "pending"]]

\* add(task, priority), lines 15-42; the calls are numbered as they are made
add(t, priority) ==
    /\ task[t].pc = "new"
    /\ IF atLimit(running)
       THEN /\ queue' = enqueue(queue, [priority |-> priority, task |-> t])
            /\ task' = [task EXCEPT ![t].pc = "queued", ![t].priority = priority]
            /\ UNCHANGED running
       ELSE /\ running' = running + 1
            /\ task' = Started([task EXCEPT ![t].priority = priority], {t})
            /\ UNCHANGED queue
    /\ UNCHANGED maxConcurrent

\* The task of add() call t ends, with a result or with an error: execute()'s
\* finally block (lines 48-51) runs, and then the promise add() returned
\* settles (line 41, or lines 24 and 26 for a task that was queued).
execute_finally(t, ok) ==
    /\ task[t].pc = "running"
    /\ LET after == processQueue(running - 1, queue)
       IN /\ running' = after.running
          /\ queue' = after.queue
          /\ task' = Started([task EXCEPT ![t].pc = "settled",
                                          ![t].promise = IF ok THEN "fulfilled"
                                                         ELSE "rejected"],
                             after.started)
    /\ UNCHANGED maxConcurrent

\* a caller of the controller makes the next add() call
Add(t, priority) ==
    /\ \A u \in Tasks : u < t => task[u].pc # "new"
    /\ add(t, priority)
    /\ UNCHANGED notCC

\* the task of add() call t ends
Complete(t, ok) ==
    /\ execute_finally(t, ok)
    /\ UNCHANGED notCC

NextCC ==
    \/ \E t \in Tasks : \E priority \in Priorities : Add(t, priority)
    \/ \E t \in Tasks : \E ok \in BOOLEAN : Complete(t, ok)

(***************************************************************************)
(* PersistenceManager                                                      *)
(***************************************************************************)

\* the keys the callers of the cache use
Keys == {"a", "b"}

\* new PersistenceManager({directory, maxFiles: 1}), lines 19-23
persistenceOptions == [maxFiles |-> 1]

\* the keys saved through a PersistenceManager used on its own
FileKeys == Keys \cup {"aa>", "aa?"}

\* the characters of a key: the keys of one character are their own
chars(key) ==
    CASE key = "aa>" -> <<"a", "a", ">">>
      [] key = "aa?" -> <<"a", "a", "?">>
      [] OTHER -> <<key>>

\* Buffer.from(key), line 35: the UTF-8 bytes of the key, which are the codes
\* of its characters for the ASCII keys of the model
charCode(ch) ==
    CASE ch = "a" -> 97
      [] ch = "b" -> 98
      [] ch = ">" -> 62
      [] ch = "?" -> 63

\* the base64 alphabet
Base64Alphabet ==
    <<"A", "B", "C", "D", "E", "F", "G", "H", "I", "J", "K", "L", "M",
      "N", "O", "P", "Q", "R", "S", "T", "U", "V", "W", "X", "Y", "Z",
      "a", "b", "c", "d", "e", "f", "g", "h", "i", "j", "k", "l", "m",
      "n", "o", "p", "q", "r", "s", "t", "u", "v", "w", "x", "y", "z",
      "0", "1", "2", "3", "4", "5", "6", "7", "8", "9", "+", "/">>

\* buffer.toString('base64'), line 35: three bytes give four characters, and
\* the last one or two bytes are padded with "="
RECURSIVE toBase64(_)
toBase64(bytes) ==
    LET sextet(n) == Base64Alphabet[n + 1]
    IN IF bytes = <<>> THEN <<>>
       ELSE IF Len(bytes) = 1
       THEN <<sextet(bytes[1] \div 4), sextet((bytes[1] % 4) * 16), "=", "=">>
       ELSE IF Len(bytes) = 2
       THEN <<sextet(bytes[1] \div 4),
              sextet((bytes[1] % 4) * 16 + bytes[2] \div 16),
              sextet((bytes[2] % 16) * 4), "=">>
       ELSE <<sextet(bytes[1] \div 4),
              sextet((bytes[1] % 4) * 16 + bytes[2] \div 16),
              sextet((bytes[2] % 16) * 4 + bytes[3] \div 64),
              sextet(bytes[3] % 64)>> \o toBase64(SubSeq(bytes, 4, Len(bytes)))

\* Buffer.from(key).toString('base64'), line 35
base64(key) ==
    toBase64([i \in 1..Len(chars(key)) |-> charCode(chars(key)[i])])

\* getFilePath(key), lines 33-37: the name of the file in the directory
getFilePath(key) ==
    LET encoded == base64(key)
        safeKey == [i \in 1..Len(encoded) |->
                      IF encoded[i] \in {"/", "+", "="} THEN "_" ELSE encoded[i]]
    IN safeKey \o <<".json">>

\* The directory is the sequence of its files, the one modified longest ago
\* first: fileStats after the sort of line 127.

\* the position of the file of that name in the directory, 0 when it has none
fileIndex(dir, name) == FirstIndex({i \in 1..Len(dir) : dir[i].name = name})

\* cleanup(), lines 110-139: the directory it leaves
cleanup(dir) ==
    IF Len(dir) <= persistenceOptions.maxFiles THEN dir
    ELSE SubSeq(dir, Len(dir) - persistenceOptions.maxFiles + 1, Len(dir))

\* writeFile(filePath, data), line 58: the file becomes the newest
writeFile(dir, key, value) ==
    LET name == getFilePath(key)
        others == SelectSeq(dir, LAMBDA f : f.name # name)
    IN Append(others, [name |-> name, key |-> key, value |-> value])

\* what load() returns when readFile fails with ENOENT, line 75
null == -1

\* load(key), lines 65-81: parsed.value, or null when there is no file
load(dir, key) ==
    LET i == fileIndex(dir, getFilePath(key))
    IN IF i = 0 THEN null ELSE dir[i].value

(***************************************************************************)
(* PersistenceManager: save() and load() with their JSON conversions       *)
(***************************************************************************)

RoundTrips == 1..MaxRoundTrips

\* The JSON values: null, booleans, integers, strings, arrays and objects. A
\* string is the sequence of its characters; an object has the names k and
\* the values a of its members, in order.
JNull == [t |-> "null", b |-> FALSE, n |-> 0, s |-> <<>>, a |-> <<>>, k |-> <<>>]
JBool(b) == [t |-> "bool", b |-> b, n |-> 0, s |-> <<>>, a |-> <<>>, k |-> <<>>]
JNum(n) == [t |-> "num", b |-> FALSE, n |-> n, s |-> <<>>, a |-> <<>>, k |-> <<>>]
JStr(s) == [t |-> "str", b |-> FALSE, n |-> 0, s |-> s, a |-> <<>>, k |-> <<>>]
JArr(a) == [t |-> "arr", b |-> FALSE, n |-> 0, s |-> <<>>, a |-> a, k |-> <<>>]
JObj(k, a) == [t |-> "obj", b |-> FALSE, n |-> 0, s |-> <<>>, a |-> a, k |-> k]

\* what obj.name is for a name the object does not have
JUndefined == [t |-> "undefined", b |-> FALSE, n |-> 0, s |-> <<>>, a |-> <<>>, k |-> <<>>]

DigitChars == <<"0", "1", "2", "3", "4", "5", "6", "7", "8", "9">>
DigitOf(ch) == CHOOSE d \in 0..9 : DigitChars[d + 1] = ch
IsDigit(ch) == \E d \in 0..9 : DigitChars[d + 1] = ch

Drop(c, n) == SubSeq(c, n + 1, Len(c))

\* JSON.stringify of a non-negative integer, and of an integer
RECURSIVE digits(_)
digits(n) == IF n < 10 THEN <<DigitChars[n + 1]>>
             ELSE digits(n \div 10) \o <<DigitChars[(n % 10) + 1]>>

numberChars(n) == IF n < 0 THEN <<"-">> \o digits(0 - n) ELSE digits(n)

\* JSON.stringify of the characters of a string: the quote and the backslash
\* are escaped
RECURSIVE escape(_)
escape(s) ==
    IF s = <<>> THEN <<>>
    ELSE (IF Head(s) \in {"\"", "\\"} THEN <<"\\", Head(s)>> ELSE <<Head(s)>>)
         \o escape(Tail(s))

quote(s) == <<"\"">> \o escape(s) \o <<"\"">>

\* JSON.stringify(value), line 43: the characters of the text
RECURSIVE stringify(_), stringifyElements(_, _), stringifyMembers(_, _, _)
stringify(v) ==
    CASE v.t = "null" -> <<"n", "u", "l", "l">>
      [] v.t = "bool" -> IF v.b THEN <<"t", "r", "u", "e">>
                                ELSE <<"f", "a", "l", "s", "e">>
      [] v.t = "num" -> numberChars(v.n)
      [] v.t = "str" -> quote(v.s)
      [] v.t = "arr" -> <<"[">> \o stringifyElements(v.a, 1) \o <<"]">>
      [] v.t = "obj" -> <<"{">> \o stringifyMembers(v.k, v.a, 1) \o <<"}">>

stringifyElements(a, i) ==
    IF i > Len(a) THEN <<>>
    ELSE (IF i > 1 THEN <<",">> ELSE <<>>) \o stringify(a[i])
         \o stringifyElements(a, i + 1)

stringifyMembers(k, a, i) ==
    IF i > Len(a) THEN <<>>
    ELSE (IF i > 1 THEN <<",">> ELSE <<>>) \o quote(k[i]) \o <<":">> \o stringify(a[i])
         \o stringifyMembers(k, a, i + 1)

\* JSON.parse, line 70, of a text that JSON.stringify wrote (it has no white
\* space). Each parser returns what it has read and the rest of the text.
RECURSIVE parseDigits(_, _)
parseDigits(c, n) ==
    IF c # <<>> /\ IsDigit(Head(c)) THEN parseDigits(Tail(c), 10 * n + DigitOf(Head(c)))
    ELSE [n |-> n, rest |-> c]

RECURSIVE parseString(_)
parseString(c) ==
    IF Head(c) = "\"" THEN [s |-> <<>>, rest |-> Tail(c)]
    ELSE IF Head(c) = "\\"
         THEN LET more == parseString(Drop(c, 2))
              IN [s |-> <<c[2]>> \o more.s, rest |-> more.rest]
         ELSE LET more == parseString(Tail(c))
              IN [s |-> <<Head(c)>> \o more.s, rest |-> more.rest]

RECURSIVE parseValue(_), parseElements(_), parseMembers(_)
parseValue(c) ==
    CASE Head(c) = "n" -> [v |-> JNull, rest |-> Drop(c, 4)]
      [] Head(c) = "t" -> [v |-> JBool(TRUE), rest |-> Drop(c, 4)]
      [] Head(c) = "f" -> [v |-> JBool(FALSE), rest |-> Drop(c, 5)]
      [] Head(c) = "-" -> LET d == parseDigits(Tail(c), 0)
                          IN [v |-> JNum(0 - d.n), rest |-> d.rest]
      [] IsDigit(Head(c)) -> LET d == parseDigits(c, 0)
                             IN [v |-> JNum(d.n), rest |-> d.rest]
      [] Head(c) = "\"" -> LET str == parseString(Tail(c))
                           IN [v |-> JStr(str.s), rest |-> str.rest]
      [] Head(c) = "[" -> LET e == parseElements(Tail(c))
                          IN [v |-> JArr(e.a), rest |-> e.rest]
      [] Head(c) = "{" -> LET m == parseMembers(Tail(c))
                          IN [v |-> JObj(m.k, m.a), rest |-> m.rest]

parseElements(c) ==
    IF Head(c) = "]" THEN [a |-> <<>>, rest |-> Tail(c)]
    ELSE LET e == parseValue(c)
             more == parseElements(IF Head(e.rest) = "," THEN Tail(e.rest) ELSE e.rest)
         IN [a |-> <<e.v>> \o more.a, rest |-> more.rest]

parseMembers(c) ==
    IF Head(c) = "}" THEN [k |-> <<>>, a |-> <<>>, rest |-> Tail(c)]
    ELSE LET name == parseString(Tail(c))
             e == parseValue(Tail(name.rest))
             more == parseMembers(IF Head(e.rest) = "," THEN Tail(e.rest) ELSE e.rest)
         IN [k |-> <<name.s>> \o more.k, a |-> <<e.v>> \o more.a, rest |-> more.rest]

parse(data) == parseValue(data).v

\* obj.name
Member(obj, name) ==
    LET i == FirstIndex({j \in 1..Len(obj.k) : obj.k[j] = name})
    IN IF i = 0 THEN JUndefined ELSE obj.a[i]

\* Date.now(), line 46, in seconds: a number that fits the integers of the model
timestamp == 1700000000

\* JSON.stringify({key, value, timestamp: Date.now()}), lines 43-47
entry(key, value) ==
    stringify(JObj(<< <<"k", "e", "y">>, <<"v", "a", "l", "u", "e">>,
                      <<"t", "i", "m", "e", "s", "t", "a", "m", "p">> >>,
                   <<JStr(chars(key)), value, JNum(timestamp)>>))

\* Buffer.byteLength(data), line 50, for a text of one-byte characters
byteLength(data) == Len(data)

\* the values the callers save
Values ==
    {JNull, JBool(TRUE), JNum(0), JNum(-42), JStr(<<>>),
     JStr(<<"x", "\"", "\\", "y">>),
     JArr(<<JNum(7), JStr(<<"n">>), JArr(<<>>)>>),
     JObj(<< <<"v", "a", "l", "u", "e">> >>, <<JBool(FALSE)>>)}

\* the maxFileSize of the manager, line 21: smaller than any entry, between
\* the entries of the model, and larger than all of them
FileSizes == {16, 48, 1024}

\* new PersistenceManager({directory, maxFileSize, maxFiles: 1}) on an empty
\* directory, and no call made
InitPersistence ==
    /\ maxFileSize \in FileSizes
    /\ rt = [r \in RoundTrips |->
               [pc |-> "new", key |-> "", value |-> JNull, data |-> <<>>,
                loaded |-> JNull]]

\* save(key, value), lines 39-55, up to await this.cleanup(): an entry larger
\* than maxFileSize makes save() throw. A caller saves when the callers
\* before it have loaded.
PersistenceSave(r, key, value) ==
    /\ rt[r].pc = "new"
    /\ \A h \in RoundTrips : h < r => rt[h].pc = "loaded"
    /\ LET data == entry(key, value)
       IN rt' = [rt EXCEPT ![r].key = key, ![r].value = value,
                           ![r].data = IF byteLength(data) > maxFileSize THEN <<>> ELSE data,
                           ![r].pc = IF byteLength(data) > maxFileSize
                                     THEN "saveFailed" ELSE "cleanup"]
    /\ UNCHANGED <<files, maxFileSize>>
    /\ UNCHANGED notPersistence

\* save() after await this.cleanup(), lines 55-58
SaveCleaned(r) ==
    /\ rt[r].pc = "cleanup"
    /\ files' = cleanup(files)
    /\ rt' = [rt EXCEPT ![r].pc = "write"]
    /\ UNCHANGED maxFileSize
    /\ UNCHANGED notPersistence

\* save() after await fs.writeFile(filePath, data, 'utf8'), lines 58-59
SaveWritten(r) ==
    /\ rt[r].pc = "write"
    /\ files' = writeFile(files, rt[r].key, rt[r].data)
    /\ rt' = [rt EXCEPT ![r].pc = "saved"]
    /\ UNCHANGED maxFileSize
    /\ UNCHANGED notPersistence

\* load(key), lines 65-81, by the manager or by a new one on the directory:
\* JSON.parse(data).value, or null when the file does not exist
PersistenceLoad(r) ==
    /\ rt[r].pc \in {"saved", "saveFailed"}
    /\ LET i == fileIndex(files, getFilePath(rt[r].key))
       IN rt' = [rt EXCEPT ![r].pc = "loaded",
                           ![r].loaded = IF i = 0 THEN JNull
                                         ELSE Member(parse(files[i].value),
                                                     <<"v", "a", "l", "u", "e">>)]
    /\ UNCHANGED <<files, maxFileSize>>
    /\ UNCHANGED notPersistence

NextPersistence ==
    \/ \E r \in RoundTrips : \E key \in FileKeys : \E value \in Values :
          PersistenceSave(r, key, value)
    \/ \E r \in RoundTrips : SaveCleaned(r)
    \/ \E r \in RoundTrips : SaveWritten(r)
    \/ \E r \in RoundTrips : PersistenceLoad(r)

(***************************************************************************)
(* QueryCache                                                              *)
(***************************************************************************)

Calls == 1..MaxCalls

\* new QueryCache({max: 1, ttl: 1, maxConcurrent: 1}), lines 90-102
cacheOptions == [max |-> 1, ttl |-> 1, maxConcurrent |-> 1]

\* options.retryOptions of the get() calls, line 209
retryOptions == [maxRetries |-> 2, retryDelay |-> 1]

\* what this.cache.get() returns for a key it does not serve; the value call
\* c stores or fetches is c, a file left by an earlier process holds 0
undefined == -2

\* the index of the key in the LRUCache, 0 when it has none
indexOf(c, key) == FirstIndex({i \in 1..Len(c) : c[i].key = key})

remove(c, i) == SubSeq(c, 1, i - 1) \o SubSeq(c, i + 1, Len(c))

\* an entry the LRUCache no longer serves: it compares the entry's age with
\* its ttl; an age counted from the origin of the clock, and an entry served
\* for one unit longer, are mistakes
isStale_late(e, t) == e.ttl # 0 /\ e.start # 0 /\ t - e.start > e.ttl + 1
isStale_sinceStart(e, t) == e.ttl # 0 /\ e.start # 0 /\ t > e.ttl
isStale(e, t) == e.ttl # 0 /\ e.start # 0 /\ t - e.start > e.ttl

\* this.cache.get(key), line 292, with updateAgeOnGet: true (line 93): the
\* value served and the entries afterwards. A stale entry is deleted; an
\* entry served becomes the most recently used and its age restarts.
lruGet(c, key, t) ==
    LET i == indexOf(c, key)
    IN IF i = 0 THEN [value |-> undefined, cache |-> c]
       ELSE IF isStale(c[i], t) THEN [value |-> undefined, cache |-> remove(c, i)]
       ELSE [value |-> c[i].value,
             cache |-> Append(remove(c, i), [c[i] EXCEPT !.start = t])]

\* this.cache.set(key, value, {ttl: undefined}), lines 303 and 332: the entry
\* becomes the most recently used; a new key in a full cache evicts the least
\* recently used entry
lruSet(c, key, value, t) ==
    LET i == indexOf(c, key)
        e == [key |-> key, value |-> value, start |-> t, ttl |-> cacheOptions.ttl]
    IN IF i # 0 THEN Append(remove(c, i), e)
       ELSE IF Len(c) = cacheOptions.max THEN Append(Tail(c), e)
       ELSE Append(c, e)

\* the key was stored in this.cache at time t
Stored(key) ==
    /\ storedAt' = [storedAt EXCEPT ![key] = now]
    /\ touchedAt' = [touchedAt EXCEPT ![key] = now]

\* a QueryCache just constructed, lines 88-107; with persistence, the
\* directory is empty or holds the file an earlier process wrote for "a"
NewCache ==
    /\ cache = <<>>
    /\ hitCounter = 0
    /\ missCounter = 0
    /\ persistence \in BOOLEAN
    /\ files \in IF persistence THEN {<<>>, writeFile(<<>>, "a", 0)} ELSE {<<>>}
    /\ call = [c \in Calls |->
                 [kind |-> "none", key |-> "", pc |-> "new", value |-> undefined,
                  attempts |-> 0, fetches |-> 0, retryAt |-> 0,
                  outcome |-> "none", during |-> FALSE,
                  expired |-> FALSE, lapsed |-> FALSE, persistErrors |-> 0]]
    /\ storedAt = [k \in Keys |-> 0]
    /\ touchedAt = [k \in Keys |-> 0]
    /\ refreshIntervals = [k \in Keys |-> 0]
    /\ timers = {}

\* a QueryCache constructed without options.warmup (line 109)
InitCache ==
    /\ NewCache
    /\ warmupPromise = "null"
    /\ warm = <<>>

\* this.concurrencyController, lines 100-102; its tasks are the fetches of
\* the get() calls
InitCacheController ==
    /\ maxConcurrent = cacheOptions.maxConcurrent
    /\ running = 0
    /\ queue = <<>>
    /\ task = [t \in Calls |->
                 [pc |-> "new", priority |-> 0, runs |-> 0, promise |-> "pending"]]

\* execute() has started the tasks that run now and did not before: each is
\* in retryOperation's first attempt and has called its fetcher (timedFetch,
\* line 229); calls is the state of the calls otherwise. fetches is the
\* history of the fetcher calls of a retry loop, kept until it returns.
Invoked(calls) ==
    [c \in Calls |->
        IF task[c].pc # "running" /\ task'[c].pc = "running"
        THEN [calls[c] EXCEPT !.fetches = @ + 1]
        ELSE calls[c]]

\* get(), lines 312-328: the call counts a miss and hands its fetch to the
\* concurrency controller, which starts it or queues it
fetchOnMiss(g, c) ==
    /\ missCounter' = missCounter + 1
    /\ add(g, 0)
    /\ call' = Invoked([call EXCEPT ![g] =
                          [c EXCEPT !.pc = "fetch", !.outcome = "miss"]])

\* get(), lines 292-313, from this.cache.get(key) to the next await or to
\* the end of the call
readCache(g, key) ==
    LET served == lruGet(cache, key, now)
        c == [call[g] EXCEPT
                !.kind = "get", !.key = key,
                !.expired = /\ storedAt[key] # 0
                            /\ now - storedAt[key] >= cacheOptions.ttl,
                !.lapsed = /\ touchedAt[key] # 0
                           /\ now - touchedAt[key] > cacheOptions.ttl]
    IN /\ cache' = served.cache
       /\ IF served.value # undefined
          THEN /\ hitCounter' = hitCounter + 1
               /\ call' = [call EXCEPT ![g] =
                             [c EXCEPT !.pc = "done", !.value = served.value,
                                       !.outcome = "memory"]]
               /\ touchedAt' = [touchedAt EXCEPT ![key] = now]
               /\ UNCHANGED <<missCounter, storedAt, ccVars>>
          ELSE IF persistence
          THEN /\ call' = [call EXCEPT ![g] = [c EXCEPT !.pc = "load"]]
               /\ UNCHANGED <<hitCounter, missCounter, storedAt, touchedAt,
                              ccVars>>
          ELSE /\ fetchOnMiss(g, c)
               /\ UNCHANGED <<hitCounter, storedAt, touchedAt>>

\* get(), line 287: if (this.warmupPromise); not to test it is a mistake
awaitsWarmup_never(promise) == FALSE
awaitsWarmup(promise) == promise # "null"

\* get(key, fetcher), lines 282-329, up to its first await; the calls on the
\* cache are numbered as they are made. While this.warmupPromise is set the
\* call awaits it (lines 287-288); during records that the warm-up pass was
\* still in flight then.
CacheGet(g, key) ==
    /\ call[g].pc = "new"
    /\ \A d \in Calls : d < g => call[d].pc # "new"
    /\ IF awaitsWarmup(warmupPromise)
       THEN /\ call' = [call EXCEPT
                         ![g].kind = "get", ![g].key = key, ![g].pc = "warmup",
                         ![g].during = (warmupPromise = "pending")]
            /\ UNCHANGED <<cache, hitCounter, missCounter, storedAt, touchedAt,
                           ccVars>>
       ELSE readCache(g, key)
    /\ UNCHANGED <<now, persistence, files, notCache, warmupVars>>

\* get(), lines 288-292: the warm-up pass is over and the call that awaited
\* it goes on, the calls in the order they were made
GetWarmedUp(g) ==
    /\ call[g].pc = "warmup"
    /\ warmupPromise # "pending"
    /\ \A d \in Calls : d < g => call[d].pc # "warmup"
    /\ warmupPromise' = "null"
    /\ readCache(g, call[g].key)
    /\ UNCHANGED <<now, persistence, files, notCache, warm>>

\* get(), lines 301-312: persistenceManager.load(key) has returned
GetLoaded(g) ==
    /\ call[g].pc = "load"
    /\ LET persistedValue == load(files, call[g].key)
       IN IF persistedValue # null
          THEN /\ cache' = lruSet(cache, call[g].key, persistedValue, now)
               /\ Stored(call[g].key)
               /\ hitCounter' = hitCounter + 1
               /\ call' = [call EXCEPT ![g].pc = "done",
                                       ![g].value = persistedValue,
                                       ![g].outcome = "disk"]
               /\ UNCHANGED <<missCounter, ccVars>>
          ELSE /\ fetchOnMiss(g, call[g])
               /\ UNCHANGED <<cache, hitCounter, storedAt, touchedAt>>
    /\ UNCHANGED <<now, persistence, files, notCache, warmupVars>>

\* retryOperation, line 217, after attempts++: no attempt is left. Giving up
\* one failure later is a mistake.
giveUp_late(attempts) == attempts = retryOptions.maxRetries + 1
giveUp(attempts) == attempts = retryOptions.maxRetries

\* the fetcher of get() call g settles (timedFetch, lines 226-237). A value
\* goes to set() (line 318) and retryOperation is over; an error is counted
\* by retryOperation (lines 215-220), which gives up at maxRetries and waits
\* before the next attempt otherwise.
FetchSettled(g, ok) ==
    /\ call[g].pc = "fetch"
    /\ task[g].pc = "running"
    /\ IF ok
       THEN /\ cache' = lruSet(cache, call[g].key, g, now)
            /\ Stored(call[g].key)
            /\ IF persistence
               THEN /\ call' = [call EXCEPT ![g].pc = "save", ![g].value = g,
                                            ![g].attempts = 0,
                                            ![g].fetches = 0]
                    /\ UNCHANGED ccVars
               ELSE /\ execute_finally(g, TRUE)
                    /\ call' = Invoked([call EXCEPT
                                          ![g].pc = "done", ![g].value = g,
                                          ![g].attempts = 0, ![g].fetches = 0])
       ELSE /\ IF giveUp(call[g].attempts + 1)
               THEN /\ execute_finally(g, FALSE)
                    /\ call' = Invoked([call EXCEPT ![g].pc = "failed",
                                                    ![g].attempts = @ + 1])
               ELSE /\ call' = [call EXCEPT
                                  ![g].pc = "backoff", ![g].attempts = @ + 1,
                                  ![g].retryAt = now + retryOptions.retryDelay
                                                       * (call[g].attempts + 1)]
                    /\ UNCHANGED ccVars
            /\ UNCHANGED <<cache, storedAt, touchedAt>>
    /\ UNCHANGED <<now, hitCounter, missCounter, persistence, files, notCache, warmupVars>>

\* retryOperation, line 220: the delay is over, the fetcher is called again
RetryFetch(g) ==
    /\ call[g].pc = "backoff"
    /\ now >= call[g].retryAt
    /\ call' = [call EXCEPT ![g].pc = "fetch", ![g].retryAt = 0,
                            ![g].fetches = @ + 1]
    /\ UNCHANGED <<now, cache, hitCounter, missCounter, persistence, files,
                   storedAt, touchedAt, ccVars, notCache, warmupVars>>

\* set(key, value), lines 331-342, up to its await; call c stores the value c
CacheSet(c, key) ==
    /\ call[c].pc = "new"
    /\ \A d \in Calls : d < c => call[d].pc # "new"
    /\ cache' = lruSet(cache, key, c, now)
    /\ Stored(key)
    /\ call' = [call EXCEPT ![c].kind = "set", ![c].key = key, ![c].value = c,
                            ![c].pc = IF persistence THEN "save" ELSE "done"]
    /\ UNCHANGED <<now, hitCounter, missCounter, persistence, files, ccVars,
                   notCache, warmupVars>>

\* set(), lines 335-340: how set() ends after save(); its catch logs the
\* error of a failed save() and emits it, and set() returns. A set() that let
\* the error through would fail.
afterSave_rethrow(result) == IF result = "written" THEN "done" ELSE "failed"
afterSave(result) == "done"

\* persistenceManager.save(key, value), lines 39-63, has ended for the set()
\* of call c: the file is written after cleanup(), or cleanup() failed, or
\* writeFile() did; set() logs the error (lines 337-340) and emits an 'error'
\* event with operation 'persist', which persistErrors counts. The fetch of a
\* get() ends with its set().
Saved(c, result) ==
    /\ call[c].pc = "save"
    /\ files' = CASE result = "written" ->
                        writeFile(cleanup(files), call[c].key, call[c].value)
                   [] result = "writeFailed" -> cleanup(files)
                   [] OTHER -> files
    /\ IF call[c].kind \in {"get", "refresh"}
       THEN execute_finally(c, TRUE)
       ELSE UNCHANGED ccVars
    /\ call' = Invoked([call EXCEPT
                  ![c].pc = afterSave(result),
                  ![c].persistErrors = @ + (IF result = "written" THEN 0 ELSE 1)])
    /\ UNCHANGED <<now, cache, hitCounter, missCounter, persistence, storedAt,
                   touchedAt, notCache, warmupVars>>

\* time passes, by less than a file access or a fetch takes; a retry delay
\* that is over ends first, and so does a call whose await has resolved
CacheTick ==
    /\ now < MaxCacheTime
    /\ \A c \in Calls : call[c].pc = "backoff" => now < call[c].retryAt
    /\ \A c \in Calls : call[c].pc \notin {"load", "fetch", "save", "unlink"}
    /\ \A w \in DOMAIN warm : warm[w].pc \notin {"fetch", "save"}
    /\ \A c \in Calls : call[c].pc = "warmup" => warmupPromise = "pending"
    /\ now' = now + 1
    /\ UNCHANGED <<cache, hitCounter, missCounter, persistence, files, call,
                   storedAt, touchedAt, ccVars, notCache, warmupVars>>

\* options.warmup, sorted by priority (lines 136-138): the keys of the specs
WarmupConfigs == {<<"a">>, <<"a", "b">>}

\* the controller's task of warm-up spec w (lines 143-161), and the value its
\* fetcher returns
WarmupTask(w) == MaxCalls + w

\* warmupCache() (lines 132-174) has added a task for every spec, in order,
\* and the controller has started the first maxConcurrent of them; intervals
\* are the refreshInterval of the specs, 0 for a spec that declares none
WarmupStarted(configs, intervals) ==
    /\ warmupPromise = "pending"
    /\ warm = [w \in 1..Len(configs) |->
                [key |-> configs[w], pc |-> "fetch",
                 refreshInterval |-> intervals[w]]]
    /\ maxConcurrent = cacheOptions.maxConcurrent
    /\ running = Min(Len(warm), maxConcurrent)
    /\ queue = [i \in 1..(Len(warm) - running) |->
                  [priority |-> 0, task |-> WarmupTask(running + i)]]
    /\ task = [t \in Calls \cup {WarmupTask(w) : w \in DOMAIN warm} |->
                 IF t \in Calls
                 THEN [pc |-> "new", priority |-> 0, runs |-> 0,
                       promise |-> "pending"]
                 ELSE IF t <= WarmupTask(running)
                 THEN [pc |-> "running", priority |-> 0, runs |-> 1,
                       promise |-> "pending"]
                 ELSE [pc |-> "queued", priority |-> 0, runs |-> 0,
                       promise |-> "pending"]]

\* a QueryCache constructed with options.warmup and without persistence; no
\* spec declares a refreshInterval
InitWarmup ==
    /\ NewCache
    /\ persistence = FALSE
    /\ \E configs \in WarmupConfigs :
          WarmupStarted(configs, [w \in 1..Len(configs) |-> 0])

\* Promise.all(warmupTasks), line 174: every spec has been stored or has failed
allWarmedUp(w) == \A v \in DOMAIN w : w[v].pc \notin {"fetch", "save"}

\* setupRefreshInterval(key, ...), lines 178-203, called for warm-up spec w:
\* the timer the key has is cleared, and a new one is set and registered for
\* the key. The timer bears the number of the spec that set it.
setupRefreshInterval(w) ==
    LET key == warm[w].key
    IN /\ timers' = {t \in timers : t.id # refreshIntervals[key]}
                    \cup {[id |-> w, key |-> key,
                           interval |-> warm[w].refreshInterval,
                           next |-> now + warm[w].refreshInterval]}
       /\ refreshIntervals' = [refreshIntervals EXCEPT ![key] = w]

\* the task of warm-up spec w after its set(), lines 149-159: the timer of a
\* spec with a refreshInterval is set up, the task ends and the controller
\* starts the next one; after the last one this.warmupPromise resolves
WarmupStoredEnd(w) ==
    /\ IF warm[w].refreshInterval # 0
       THEN setupRefreshInterval(w)
       ELSE UNCHANGED refreshVars
    /\ execute_finally(WarmupTask(w), TRUE)
    /\ call' = Invoked(call)
    /\ warm' = [warm EXCEPT ![w].pc = "stored"]
    /\ warmupPromise' = IF allWarmedUp(warm') THEN "resolved" ELSE warmupPromise

\* warmupCache(), lines 145-146 and 162-171: the fetcher of warm-up spec w
\* settles. Its value is stored with set(), which awaits save() when the
\* cache has a persistence manager; its error is counted (the catch of lines
\* 162-171), the spec is not tried again and the rest of the task, the set-up
\* of the timer included, is skipped. The task ends and the controller starts
\* the next one; after the last one this.warmupPromise resolves.
WarmupFetched(w, ok) ==
    /\ w \in DOMAIN warm
    /\ warm[w].pc = "fetch"
    /\ task[WarmupTask(w)].pc = "running"
    /\ IF ok
       THEN /\ cache' = lruSet(cache, warm[w].key, WarmupTask(w), now)
            /\ Stored(warm[w].key)
            /\ IF persistence
               THEN /\ warm' = [warm EXCEPT ![w].pc = "save"]
                    /\ UNCHANGED <<ccVars, call, warmupPromise, refreshVars>>
               ELSE WarmupStoredEnd(w)
       ELSE /\ execute_finally(WarmupTask(w), FALSE)
            /\ call' = Invoked(call)
            /\ warm' = [warm EXCEPT ![w].pc = "failed"]
            /\ warmupPromise' = IF allWarmedUp(warm') THEN "resolved"
                                ELSE warmupPromise
            /\ UNCHANGED <<cache, storedAt, touchedAt, refreshVars>>
    /\ UNCHANGED <<now, hitCounter, missCounter, persistence, files, notRefresh>>

NextWarmup ==
    \/ \E w \in 1..Cardinality(Keys) : \E ok \in BOOLEAN : WarmupFetched(w, ok)
    \/ \E g \in Calls : \E key \in Keys : CacheGet(g, key)
    \/ \E g \in Calls : GetWarmedUp(g)
    \/ \E g \in Calls : \E ok \in BOOLEAN : FetchSettled(g, ok)
    \/ \E g \in Calls : RetryFetch(g)
    \/ CacheTick

NextCache ==
    \/ \E g \in Calls : \E key \in Keys : CacheGet(g, key)
    \/ \E g \in Calls : GetLoaded(g)
    \/ \E g \in Calls : \E ok \in BOOLEAN : FetchSettled(g, ok)
    \/ \E g \in Calls : RetryFetch(g)
    \/ \E c \in Calls : \E key \in Keys : CacheSet(c, key)
    \/ \E c \in Calls : \E result \in {"written", "writeFailed", "cleanupFailed"} :
          Saved(c, result)
    \/ CacheTick

(***************************************************************************)
(* QueryCache: refresh timers and delete()                                 *)
(***************************************************************************)

\* the refreshInterval of the warm-up specs that declare one
refreshInterval == 1

\* the calls on a cache with refresh timers: the first of the calls
RefreshCalls == 1..MaxRefreshCalls

\* options.warmup, sorted: the keys of the specs; a key can have two specs
RefreshConfigs == {<<"a">>, <<"a", "b">>, <<"a", "a">>}

\* a QueryCache constructed with options.warmup, with or without persistence;
\* each spec declares a refreshInterval or none
InitRefresh ==
    /\ NewCache
    /\ \E configs \in RefreshConfigs :
          \E intervals \in [1..Len(configs) -> {0, refreshInterval}] :
             WarmupStarted(configs, intervals)

\* set() of warm-up spec w, lines 335-340: save() has ended, with the file
\* written or with an error that set() logs and emits; the task goes on
WarmupSaved(w, result) ==
    /\ w \in DOMAIN warm
    /\ warm[w].pc = "save"
    /\ files' = CASE result = "written" ->
                        writeFile(cleanup(files), warm[w].key, WarmupTask(w))
                   [] result = "writeFailed" -> cleanup(files)
                   [] OTHER -> files
    /\ WarmupStoredEnd(w)
    /\ UNCHANGED <<now, cache, hitCounter, missCounter, persistence, storedAt,
                   touchedAt, notRefresh>>

\* The timer with number id fires, lines 188-200: its callback hands a fetch
\* with retries to the concurrency controller, which starts it or queues it.
\* The callback is call c on the cache; its set() stores the value c.
RefreshTick(c, id) ==
    /\ call[c].pc = "new"
    /\ \A d \in Calls : d < c => call[d].pc # "new"
    /\ \E t \in timers :
          /\ t.id = id
          /\ now >= t.next
          /\ timers' = (timers \ {t}) \cup {[t EXCEPT !.next = @ + t.interval]}
          /\ add(c, 0)
          /\ call' = Invoked([call EXCEPT ![c].kind = "refresh", ![c].key = t.key,
                                          ![c].pc = "fetch"])
    /\ UNCHANGED <<now, cache, hitCounter, missCounter, persistence, files,
                   storedAt, touchedAt, refreshIntervals, warmupVars, notRefresh>>

\* fs.unlink(filePath) in PersistenceManager.delete(), persistence.ts line 87
unlink(dir, name) == SelectSeq(dir, LAMBDA f : f.name # name)

\* delete(key), lines 407-419, up to its await: the entry, the metrics and
\* the timer registered for the key go. The metrics are not part of the model.
\* during records that the warm-up pass was still in flight at the call.
CacheDelete(c, key) ==
    /\ call[c].pc = "new"
    /\ \A d \in Calls : d < c => call[d].pc # "new"
    /\ cache' = SelectSeq(cache, LAMBDA e : e.key # key)
    /\ timers' = {t \in timers : t.id # refreshIntervals[key]}
    /\ refreshIntervals' = [refreshIntervals EXCEPT ![key] = 0]
    /\ call' = [call EXCEPT ![c].kind = "delete", ![c].key = key,
                            ![c].during = (warmupPromise = "pending"),
                            ![c].pc = IF persistence THEN "unlink" ELSE "done"]
    /\ UNCHANGED <<now, hitCounter, missCounter, persistence, files, storedAt,
                   touchedAt, ccVars, warmupVars, notRefresh>>

\* delete(), line 417: persistenceManager.delete(key) has ended (persistence.ts
\* lines 83-94): the file is unlinked, or there was none, or unlink() failed
\* with another error than ENOENT, which delete() throws
CacheDeleted(c, ok) ==
    /\ call[c].pc = "unlink"
    /\ files' = IF ok THEN unlink(files, getFilePath(call[c].key)) ELSE files
    /\ call' = [call EXCEPT ![c].pc = IF ok THEN "done" ELSE "failed"]
    /\ UNCHANGED <<now, cache, hitCounter, missCounter, persistence, storedAt,
                   touchedAt, ccVars, warmupVars, refreshVars, notRefresh>>

\* the cache with its warm-up pass, its refresh timers and the callers of
\* get() and delete()
NextRefresh ==
    \/ \E w \in 1..Cardinality(Keys) : \E ok \in BOOLEAN : WarmupFetched(w, ok)
    \/ \E w \in 1..Cardinality(Keys) :
          \E result \in {"written", "writeFailed", "cleanupFailed"} :
             WarmupSaved(w, result)
    \/ \E c \in RefreshCalls : \E id \in 1..Cardinality(Keys) : RefreshTick(c, id)
    \/ \E g \in RefreshCalls : \E key \in Keys : CacheGet(g, key)
    \/ \E g \in RefreshCalls : GetWarmedUp(g)
    \/ \E g \in RefreshCalls : GetLoaded(g)
    \/ \E g \in RefreshCalls : \E ok \in BOOLEAN : FetchSettled(g, ok)
    \/ \E g \in RefreshCalls : RetryFetch(g)
    \/ \E c \in RefreshCalls : \E result \in {"written", "writeFailed", "cleanupFailed"} :
          Saved(c, result)
    \/ \E c \in RefreshCalls : \E key \in Keys : CacheDelete(c, key)
    \/ \E c \in RefreshCalls : \E ok \in BOOLEAN : CacheDeleted(c, ok)
    \/ CacheTick

(***************************************************************************)
(* prisma-client.ts: initializePrisma()                                    *)
(***************************************************************************)

Inits == 1..MaxInit

\* const maxRetries = 3, line 221
maxRetries == 3

\* The error objects. The one the $connect() of attempt a of call i rejects
\* with, and the one new Error(`... ${message}`) builds from the message of
\* another: a different object that quotes it.
NoError == [call |-> 0, attempt |-> 0, wrapped |-> FALSE]
ConnectError(i, a) == [call |-> i, attempt |-> a, wrapped |-> FALSE]
NewError(lastError) == [lastError EXCEPT !.wrapped = TRUE]

\* the PrismaClient object that attempt a of call i constructs, lines 226-231
NewPrismaClient(i, a) == (i - 1) * maxRetries + a

\* the module as loaded: no client, no call of initializePrisma() made
InitPrisma ==
    /\ prismaClient = 0
    /\ connections = {}
    /\ init = [i \in Inits |->
                 [pc |-> "new", attempt |-> 0, client |-> 0,
                  lastError |-> NoError, thrown |-> NoError]]

\* initializePrisma(), lines 216-234: it returns the module's client when
\* there is one, and else constructs a client and awaits its $connect()
InitializePrisma(i) ==
    /\ init[i].pc = "new"
    /\ \A h \in Inits : h < i => init[h].pc # "new"
    /\ init' = IF prismaClient # 0
               THEN [init EXCEPT ![i].pc = "returned", ![i].client = prismaClient]
               ELSE [init EXCEPT ![i].pc = "connecting", ![i].attempt = 1,
                                 ![i].client = NewPrismaClient(i, 1)]
    /\ UNCHANGED <<prismaClient, connections>>
    /\ UNCHANGED notInit

\* await client.$connect() has settled, lines 234-253: the client becomes the
\* module's client, or the loop goes to its delay, or it ends and
\* initializePrisma() throws (lines 255-257)
InitConnected(i, ok) ==
    /\ init[i].pc = "connecting"
    /\ IF ok
       THEN /\ prismaClient' = init[i].client
            /\ connections' = connections \cup {init[i].client}
            /\ init' = [init EXCEPT ![i].pc = "returned"]
       ELSE /\ LET error == ConnectError(i, init[i].attempt)
               IN init' = IF init[i].attempt < maxRetries
                          THEN [init EXCEPT ![i].pc = "delay", ![i].lastError = error,
                                            ![i].client = 0]
                          ELSE [init EXCEPT ![i].pc = "failed", ![i].lastError = error,
                                            ![i].client = 0,
                                            ![i].thrown = NewError(error)]
            /\ UNCHANGED <<prismaClient, connections>>
    /\ UNCHANGED notInit

\* the delay of lines 249-252 is over: the next attempt, lines 224-234
InitRetry(i) ==
    /\ init[i].pc = "delay"
    /\ init' = [init EXCEPT ![i].pc = "connecting", ![i].attempt = @ + 1,
                            ![i].client = NewPrismaClient(i, init[i].attempt + 1)]
    /\ UNCHANGED <<prismaClient, connections>>
    /\ UNCHANGED notInit

NextInit ==
    \/ \E i \in Inits : InitializePrisma(i)
    \/ \E i \in Inits : \E ok \in BOOLEAN : InitConnected(i, ok)
    \/ \E i \in Inits : InitRetry(i)

(***************************************************************************)
(* prisma-client.ts: the operations of a client of PrismaManager.getClient()*)
(***************************************************************************)

Ops == 1..MaxOps

\* validateQueryParams(args, {maxLimit: 100, maxDepth: 5}), lines 141-144
validation == [maxLimit |-> 100, maxDepth |-> 5]

\* The values of JavaScript that args are made of: undefined, a number, and
\* an object, of which the model keeps its take property (0 when it has none,
\* which args.take && ... treats alike) and its Object.values().
Undefined == [type |-> "undefined", take |-> 0, values |-> <<>>]
Num == [type |-> "number", take |-> 0, values |-> <<>>]
Obj(take, values) == [type |-> "object", take |-> take, values |-> values]

\* {a: {a: ... 1}} with n objects, a number for n = 0
RECURSIVE Nested(_)
Nested(n) == IF n = 0 THEN Num ELSE Obj(0, <<Nested(n - 1)>>)

\* the args {take, where}: take is left out when it is 0, where when nesting
\* is 0, and else where nests that many objects
Args(take, nesting) ==
    Obj(take, (IF take # 0 THEN <<Num>> ELSE <<>>)
              \o (IF nesting # 0 THEN <<Nested(nesting)>> ELSE <<>>))

Takes == {0, validation.maxLimit, validation.maxLimit + 1}
Nestings == 0..MaxNesting

\* calculateQueryDepth(obj, depth), lines 65-73; MaxDepthOf is its
\* map(...).reduce(Math.max, depth) over the values from index i on
RECURSIVE calculateQueryDepth(_, _), MaxDepthOf(_, _, _)
calculateQueryDepth(obj, depth) ==
    IF obj.type # "object" THEN depth
    ELSE Max(depth, MaxDepthOf(obj.values, 1, depth + 1))

MaxDepthOf(values, i, depth) ==
    IF i > Len(values) THEN 0
    ELSE Max(calculateQueryDepth(values[i], depth), MaxDepthOf(values, i + 1, depth))

\* a validation that forgets the depth of the query
validateQueryParams_noDepth(args, v) ==
    IF args.type = "undefined" THEN "ok"
    ELSE IF v.maxLimit # 0 /\ args.take # 0 /\ args.take > v.maxLimit THEN "limit"
    ELSE "ok"

\* validateQueryParams(args, validation), lines 38-62, without required
\* fields: the rule whose Error it throws, "ok" when it returns
validateQueryParams(args, v) ==
    IF args.type = "undefined" THEN "ok"
    ELSE IF v.maxLimit # 0 /\ args.take # 0 /\ args.take > v.maxLimit THEN "limit"
    ELSE IF v.maxDepth # 0 /\ calculateQueryDepth(args, 0) > v.maxDepth THEN "depth"
    ELSE "ok"

\* a PrismaManager just constructed, lines 77-84, and no operation issued
InitManager ==
    /\ managerStats = [totalQueries |-> 0, slowQueries |-> 0, verySlowQueries |-> 0,
                        errors |-> 0, queryErrorEvents |-> 0]
    /\ op = [o \in Ops |->
               [pc |-> "new", take |-> 0, nesting |-> 0, defined |-> FALSE,
                invoked |-> 0, error |-> "none"]]

\* the catch of $allOperations, lines 177-188: it counts the error, emits
\* 'query-error' and throws the error again
caught(st) ==
    [st EXCEPT !.errors = @ + 1, !.queryErrorEvents = @ + 1]

\* updateQueryStats(duration), lines 112-128, without the query times
updateQueryStats(st, duration) ==
    [st EXCEPT !.totalQueries = @ + 1,
               !.verySlowQueries = @ + (IF duration = "verySlow" THEN 1 ELSE 0),
               !.slowQueries = @ + (IF duration = "slow" THEN 1 ELSE 0)]

\* $allOperations({operation, model, args, query}), lines 136-152, up to its
\* await: it validates args and calls query(args). defined is FALSE for an
\* operation called without args.
Operation(o, defined, take, nesting) ==
    /\ op[o].pc = "new"
    /\ \A n \in Ops : n < o => op[n].pc # "new"
    /\ ~defined => take = 0 /\ nesting = 0
    /\ LET args == IF defined THEN Args(take, nesting) ELSE Undefined
           rule == validateQueryParams(args, validation)
           issued == [op[o] EXCEPT !.take = take, !.nesting = nesting,
                                   !.defined = defined]
       IN IF rule # "ok"
          THEN /\ op' = [op EXCEPT ![o] = [issued EXCEPT !.pc = "failed", !.error = rule]]
               /\ managerStats' = caught(managerStats)
          ELSE /\ op' = [op EXCEPT ![o] = [issued EXCEPT !.pc = "querying",
                                                         !.invoked = @ + 1]]
               /\ UNCHANGED managerStats
    /\ UNCHANGED notManager

\* await Promise.race([queryPromise, timeoutPromise]) has settled, lines
\* 152-188: with the result after some duration, with the error of the query
\* or with the timeout's
QuerySettled(o, outcome) ==
    /\ op[o].pc = "querying"
    /\ IF outcome \in {"fast", "slow", "verySlow"}
       THEN /\ op' = [op EXCEPT ![o].pc = "returned"]
            /\ managerStats' = updateQueryStats(managerStats, outcome)
       ELSE /\ op' = [op EXCEPT ![o].pc = "failed", ![o].error = outcome]
            /\ managerStats' = caught(managerStats)
    /\ UNCHANGED notManager

NextManager ==
    \/ \E o \in Ops : \E defined \in BOOLEAN : \E take \in Takes : \E nesting \in Nestings :
          Operation(o, defined, take, nesting)
    \/ \E o \in Ops : \E outcome \in {"fast", "slow", "verySlow", "rejected", "timeout"} :
          QuerySettled(o, outcome)

(***************************************************************************)
(* Specifications                                                          *)
(***************************************************************************)

\* a PersistenceManager nobody calls directly
IdlePersistence ==
    /\ maxFileSize = 1024
    /\ rt = [r \in RoundTrips |->
               [pc |-> "new", key |-> "", value |-> JNull, data |-> <<>>,
                loaded |-> JNull]]

\* prisma-client.ts with no call of initializePrisma()
IdlePrisma ==
    /\ InitPrisma
    /\ InitManager

\* a controller nobody uses
IdleCC ==
    /\ maxConcurrent = 1
    /\ running = 0
    /\ queue = <<>>
    /\ task = [t \in Tasks |->
                 [pc |-> "new", priority |-> 0, runs |-> 0, promise |-> "pending"]]

\* a pool nobody uses, its initial clients not yet connected
IdlePool ==
    /\ InitPool
    /\ viaManager = FALSE

\* a cache nobody uses
IdleCache ==
    /\ InitCache
    /\ persistence = FALSE

\* a PrismaPool used directly through acquire() and release(), or the one
\* PrismaManager owns, used through getClient() and releaseClient()
InitSpecPool ==
    /\ InitPool
    /\ viaManager \in BOOLEAN
    /\ IdleCC
    /\ IdleCache
    /\ IdlePrisma
    /\ IdlePersistence

SpecPool == InitSpecPool /\ [][NextPool]_vars

\* the pool with a caller of close()
NextClose ==
    \/ NextPool
    \/ Close
    \/ CloseDisconnected

SpecClose == InitSpecPool /\ [][NextClose]_vars

\* What the event loop does for sure: the connects and disconnects under way
\* end, the timers that are due fire and time passes. The callers are free
\* to keep their clients and to make no further call.
PoolFairness ==
    /\ WF_vars(\E connected \in SUBSET (1..options.min) : InitializeMinConnections(connected))
    /\ WF_vars(\E r \in Acquires : \E connected \in BOOLEAN : AcquireCreated(r, connected))
    /\ WF_vars(\E r \in Acquires : AcquireTimer(r))
    /\ WF_vars(Maintenance)
    /\ WF_vars(MaintenanceDisconnected)
    /\ WF_vars(CloseDisconnected)
    /\ WF_vars(Tick)

FairSpecPool == SpecPool /\ PoolFairness

FairSpecClose == SpecClose /\ PoolFairness

\* a ConcurrencyController and the callers of add()
InitSpecCC ==
    /\ InitCC
    /\ IdlePool
    /\ IdleCache
    /\ IdlePrisma
    /\ IdlePersistence

SpecCC == InitSpecCC /\ [][NextCC]_vars

\* Every started task ends: the tasks of this repository are fetches and
\* file writes, and the claim about them assumes that they complete.
FairSpecCC == SpecCC /\ WF_vars(\E t \in Tasks : \E ok \in BOOLEAN : Complete(t, ok))

\* a QueryCache and the callers of get() and set()
InitSpecCache ==
    /\ InitCache
    /\ InitCacheController
    /\ IdlePool
    /\ IdlePrisma
    /\ IdlePersistence

SpecCache == InitSpecCache /\ [][NextCache]_vars

\* a QueryCache constructed with warm-up specs and the callers of get()
InitSpecWarmup ==
    /\ InitWarmup
    /\ IdlePool
    /\ IdlePrisma
    /\ IdlePersistence

SpecWarmup == InitSpecWarmup /\ [][NextWarmup]_vars

\* a QueryCache constructed with warm-up specs that are refreshed, and the
\* callers of get() and delete()
InitSpecRefresh ==
    /\ InitRefresh
    /\ IdlePool
    /\ IdlePrisma
    /\ IdlePersistence

SpecRefresh == InitSpecRefresh /\ [][NextRefresh]_vars

\* the callers of initializePrisma()
InitSpecInit ==
    /\ InitPrisma
    /\ InitManager
    /\ IdlePool
    /\ IdleCC
    /\ IdleCache
    /\ IdlePersistence

SpecInit == InitSpecInit /\ [][NextInit]_vars

\* the callers of the operations of a managed client
InitSpecManager ==
    /\ InitManager
    /\ InitPrisma
    /\ IdlePool
    /\ IdleCC
    /\ IdleCache
    /\ IdlePersistence

SpecManager == InitSpecManager /\ [][NextManager]_vars

\* a PersistenceManager on an empty directory and its callers
InitSpecPersistence ==
    /\ InitPersistence
    /\ IdleCache
    /\ IdlePool
    /\ IdleCC
    /\ IdlePrisma

SpecPersistence == InitSpecPersistence /\ [][NextPersistence]_vars

(***************************************************************************)
(* Claims about PrismaPool and PrismaManager                               *)
(***************************************************************************)

\* C1: the pool never holds more than max clients: active + idle <= max and
\* total <= max, for any interleaving of acquire and release, acquire calls in
\* flight together and acquire calls issued before the initial clients exist
\* included.
C1_PoolBound ==
    /\ Cardinality(activeClients) + Len(idleClients) <= options.max
    /\ Len(clients) <= options.max

\* C2: a queued acquire() whose own timer has fired, no client having been
\* handed to it by then, has been rejected and is no longer in the queue.
C2_OwnTimerRejects ==
    \A r \in Acquires :
        acq[r].timer = "fired" => acq[r].pc = "rejected" /\ ~InQueue(r)

\* C3: when releaseClient() is given the handle getClient() returned, the
\* pooled client behind it is in the idle set afterwards, or has gone to the
\* request at the head of the queue.
C3_ReleaseClientReturns ==
    [][\A r \in Acquires :
          (viaManager /\ acq[r].pc = "held" /\ acq'[r].pc = "released") =>
             \/ \E i \in 1..Len(idleClients') : idleClients'[i] = acq[r].client
             \/ /\ waitingQueue # <<>>
                /\ acq'[Head(waitingQueue).resolve.call].pc = "held"
                /\ acq'[Head(waitingQueue).resolve.call].client = acq[r].client]_vars

\* C4: waiters are served in arrival order. A client is never handed to a
\* request while a request queued before it is still in the queue, and a
\* request queued behind n others is still waiting after at most n releases
\* of clients on loan.
C4_FifoWaiters ==
    /\ [](\A r \in Acquires : InQueue(r) => acq[r].releases <= acq[r].ahead)
    /\ [][\A a, b \in Acquires :
             (a < b /\ InQueue(a) /\ InQueue(b)) =>
                ~(acq'[b].pc = "held" /\ Queued(waitingQueue', a))]_vars

\* a request that arrived behind another one is still queued after a release
\* that served the one before it
C4_Witness ==
    \E a, b \in Acquires :
        /\ a < b
        /\ acq[a].pc = "held"
        /\ InQueue(b)
        /\ acq[b].ahead >= 1
        /\ acq[b].releases >= 1

\* C5: no client is in the idle set and the active set at once, and no client
\* is on loan to two callers at once.
C5_ExclusiveLoan ==
    /\ \A i \in 1..Len(idleClients) : idleClients[i] \notin activeClients
    /\ \A r, q \in Acquires :
          (r # q /\ acq[r].pc = "held" /\ acq[q].pc = "held") =>
             acq[r].client # acq[q].client

\* two clients are on loan together after an earlier loan has ended, and a
\* client is back in the idle set
C5_Witness ==
    /\ \E r, q \in Acquires :
          r # q /\ acq[r].pc = "held" /\ acq[q].pc = "held"
    /\ \E p \in Acquires : acq[p].pc = "released"
    /\ idleClients # <<>>

(***************************************************************************)
(* Claims about ConcurrencyController                                      *)
(***************************************************************************)

Added == {t \in Tasks : task[t].pc # "new"}
Settled == {t \in Tasks : task[t].pc = "settled"}

\* C6: never more than maxConcurrent tasks run at once, and as long as no
\* task has completed, of the tasks added maxConcurrent are running and the
\* others are queued.
C6_ConcurrencyBound ==
    /\ running <= maxConcurrent
    /\ Settled = {} =>
          /\ running = Min(Cardinality(Added), maxConcurrent)
          /\ Len(queue) = Max(Cardinality(Added) - maxConcurrent, 0)
          /\ running = Cardinality({t \in Tasks : task[t].pc = "running"})

\* more add() calls than maxConcurrent have been made and no task has ended
C6_Witness ==
    /\ Settled = {}
    /\ Cardinality(Added) >= maxConcurrent + 2
    /\ maxConcurrent >= 2

\* C7: a queued task is never dispatched while a task of strictly higher
\* priority, or a task of the same priority that was queued before it, is
\* still in the queue.
C7_PriorityThenFifo ==
    [][\A t, u \in Tasks :
          (t # u /\ task[t].pc = "queued" /\ task[u].pc = "queued"
           /\ task'[t].pc = "running" /\ task'[u].pc = "queued") =>
             \/ task[t].priority > task[u].priority
             \/ task[t].priority = task[u].priority /\ t < u]_vars

\* a task was dispatched from a queue that held tasks of two priorities and
\* two tasks of one priority
C7_Witness ==
    \E t, u, v \in Tasks :
        /\ task[t].pc = "running" /\ task[t].runs = 1
        /\ task[u].pc = "queued" /\ task[v].pc = "queued"
        /\ u < v /\ v < t
        /\ task[t].priority > task[u].priority
        /\ task[u].priority = task[v].priority
        /\ Settled # {}

\* C8: every task given to add() is executed exactly once and the promise of
\* its add() call settles when it ends, with its result or with its error; a
\* task that fails frees its slot, so every queued task is dispatched in the
\* end.
C8_NoTaskDropped ==
    /\ [](\A t \in Tasks :
            /\ task[t].runs <= 1
            /\ task[t].pc \in {"running", "settled"} => task[t].runs = 1
            /\ task[t].pc = "settled" <=> task[t].promise # "pending"
            /\ task[t].pc = "queued" <=>
                   \E i \in 1..Len(queue) : queue[i].task = t)
    /\ \A t \in Tasks : (task[t].pc = "queued") ~> (task[t].pc = "running")

\* a task that was queued behind a failed task has run and settled
C8_Witness ==
    \E t, u \in Tasks :
        /\ task[t].promise = "rejected"
        /\ u > maxConcurrent
        /\ task[u].pc = "settled"
        /\ task[u].runs = 1


(***************************************************************************)
(* Claims about QueryCache                                                 *)
(***************************************************************************)

\* the calls made so far
Issued == {c \in Calls : call[c].kind # "none"}

\* so far the cache has only had get() calls, on distinct keys, and each has
\* been counted as a hit or as a miss
DistinctGetsCounted ==
    \A c \in Issued :
        /\ call[c].kind = "get"
        /\ call[c].outcome # "none"
        /\ \A d \in Issued : d # c => call[d].key # call[c].key

\* call g is made in this step and is a get() of a key that a get() was made
\* on before
LaterGet(g) ==
    /\ call[g].pc = "new"
    /\ call'[g].kind = "get"
    /\ \E h \in Issued : call[h].kind = "get" /\ call[h].key = call'[g].key

\* the get() that call g makes in this step is a hit that ends the call, and
\* no fetch is handed to the controller
CountedAsHit(g) ==
    /\ hitCounter' = hitCounter + 1
    /\ missCounter' = missCounter
    /\ call'[g].pc = "done"
    /\ task' = task

\* C9, as stated: on a new cache, after k get() calls on k distinct keys
\* misses = k and hits = 0; a later get() on one of those keys, made before
\* the TTL of the key has expired, increments hits by one, leaves misses
\* unchanged and does not invoke the fetcher.
C9_HitMissAccounting ==
    /\ [](DistinctGetsCounted =>
            hitCounter = 0 /\ missCounter = Cardinality(Issued))
    /\ [][\A g \in Calls :
            (/\ LaterGet(g)
             /\ storedAt[call'[g].key] # 0
             /\ now - storedAt[call'[g].key] < cacheOptions.ttl) =>
               CountedAsHit(g)]_vars

\* C9, amended: on a new cache, after k get() calls on k distinct keys, hits
\* is the number of those keys that were loaded from a file an earlier
\* process left in the persistence directory and misses is the number of the
\* others, so that misses = k and hits = 0 without persistence; a later get()
\* on one of those keys, whose entry is still in the memory cache and was
\* stored less than its TTL ago, increments hits by one, leaves misses
\* unchanged and does not invoke the fetcher.
C9_HitMissAccountingAmended ==
    /\ [](DistinctGetsCounted =>
            /\ hitCounter = Cardinality({c \in Issued : call[c].outcome = "disk"})
            /\ missCounter = Cardinality({c \in Issued : call[c].outcome = "miss"})
            /\ \A c \in Issued : call[c].outcome = "disk" => call[c].value = 0
            /\ ~persistence => hitCounter = 0 /\ missCounter = Cardinality(Issued))
    /\ [][\A g \in Calls :
            (/\ LaterGet(g)
             /\ indexOf(cache, call'[g].key) # 0
             /\ now - storedAt[call'[g].key] < cacheOptions.ttl) =>
               CountedAsHit(g)]_vars

\* two get() calls on distinct keys have missed and a later get() on one of
\* the two keys has been served from the memory cache
C9_Witness ==
    /\ missCounter = 2
    /\ hitCounter = 1
    /\ \E g, h, i \in Calls :
          /\ h < g /\ i < g
          /\ call[h].key # call[i].key
          /\ call[h].outcome = "miss" /\ call[h].pc = "done"
          /\ call[i].outcome = "miss" /\ call[i].pc = "done"
          /\ call[g].kind = "get" /\ call[g].key = call[h].key
          /\ call[g].outcome = "memory"

\* C10, as stated: once T has elapsed since a key was set with ttl = T, every
\* get() of the key counts as a miss and invokes the fetcher, whether or not
\* the key was read in the meantime and whether or not persistence is
\* configured.
C10_TtlExpiry ==
    \A g \in Calls :
        (call[g].expired /\ call[g].outcome # "none") => call[g].outcome = "miss"

\* C10, amended: once more than T has elapsed since a key with ttl = T was
\* last set or last served from the memory cache, a get() of the key is not
\* served from the memory cache: it counts as a miss and invokes the fetcher,
\* unless persistence is configured and the key is loaded from its file, which
\* counts as a hit.
C10_TtlExpiryAmended ==
    \A g \in Calls :
        (call[g].lapsed /\ call[g].outcome # "none") =>
            \/ call[g].outcome = "miss" /\ task[g].pc # "new"
            \/ call[g].outcome = "disk" /\ persistence

\* a get() made more than T after the key was set has missed, and its fetch
\* has been handed to the controller
C10_Witness ==
    \E g \in Calls :
        /\ call[g].lapsed
        /\ call[g].outcome = "miss"
        /\ task[g].pc # "new"
        /\ \E c \in Calls : c < g /\ call[c].kind = "set" /\ call[c].key = call[g].key

\* C11: a get() whose fetcher throws at every call calls it maxRetries times,
\* never more, and is rejected when the last of these calls has failed: a
\* call still at work after that many failures does not exist.
C11_ExactlyMaxRetries ==
    \A g \in Calls :
        /\ call[g].fetches <= retryOptions.maxRetries
        /\ call[g].pc = "failed" =>
              /\ call[g].fetches = retryOptions.maxRetries
              /\ task[g].promise = "rejected"
        /\ call[g].attempts = retryOptions.maxRetries => call[g].pc = "failed"
        /\ call[g].pc \in {"fetch", "backoff"} /\ task[g].pc = "running" =>
              call[g].fetches = call[g].attempts
                                + (IF call[g].pc = "fetch" THEN 1 ELSE 0)

\* a get() has been rejected after its fetcher failed maxRetries times
C11_Witness ==
    \E g \in Calls :
        /\ call[g].pc = "failed"
        /\ call[g].fetches = retryOptions.maxRetries
        /\ task[g].promise = "rejected"

\* warm-up spec w has stored the key
WarmupStored(key) ==
    \E w \in DOMAIN warm : warm[w].key = key /\ warm[w].pc = "stored"

\* while the warm-up pass is in flight, no get() has read the cache or called
\* its fetcher: those made since then await it
GetsAwaitWarmup ==
    warmupPromise = "pending" =>
        \A g \in Calls :
            call[g].kind = "get" =>
                /\ call[g].pc = "warmup"
                /\ call[g].during
                /\ call[g].outcome = "none"
                /\ call[g].fetches = 0
                /\ task[g].pc = "new"

\* C12, as stated: while the warm-up pass is in flight no get() reads the
\* cache or calls its fetcher, and a get() made during warm-up of a key that
\* warm-up has stored does not fetch the key a second time.
C12_WarmupBlocksGets ==
    /\ GetsAwaitWarmup
    /\ \A g \in Calls :
          (call[g].during /\ WarmupStored(call[g].key)) =>
              call[g].outcome # "miss"

\* C12, amended: while the warm-up pass is in flight no get() reads the cache
\* or calls its fetcher, and a get() made during warm-up of a key that warm-up
\* has stored is served from the memory cache, without a second fetch, when
\* the entry of the key is still there as the get() goes on: it has not
\* expired and the warm-up of other keys has not evicted it.
C12_WarmupBlocksGetsAmended ==
    /\ []GetsAwaitWarmup
    /\ [][\A g \in Calls :
            (/\ call[g].pc = "warmup"
             /\ call'[g].pc # "warmup"
             /\ call[g].during
             /\ WarmupStored(call[g].key)
             /\ indexOf(cache, call[g].key) # 0
             /\ now - storedAt[call[g].key] < cacheOptions.ttl) =>
               /\ call'[g].outcome = "memory"
               /\ call'[g].pc = "done"
               /\ call'[g].fetches = 0
               /\ task' = task]_vars

\* a get() made while warm-up was in flight has been served the value warm-up
\* stored, after another warm-up spec has failed
C12_Witness ==
    \E g \in Calls :
        /\ call[g].during
        /\ call[g].outcome = "memory"
        /\ WarmupStored(call[g].key)
        /\ call[g].value > MaxCalls
        /\ \E w \in DOMAIN warm : warm[w].pc = "failed"

\* the acquire() calls whose client has been on loan for longer than
\* leakDetectionThreshold
HeldTooLong ==
    {r \in Acquires : /\ acq[r].pc = "held"
                      /\ now - acq[r].since > options.leakDetectionThreshold}

\* C13: a maintenance tick reports every client that has been on loan for
\* longer than leakDetectionThreshold, once, counts one leaked connection for
\* every report, and leaves these clients active, connected and with their
\* callers.
C13_LeakReportedPerTick ==
    [][maint'.next # maint.next =>
         /\ \A r \in HeldTooLong :
               /\ Cardinality({i \in Leaked(clients, now) :
                                 clients[i].client = acq[r].client}) = 1
               /\ acq'[r] = acq[r]
               /\ acq[r].client \in activeClients'
               /\ FindClientInfo(clients', acq[r].client) # 0
         /\ stats'.leakedConnections =
               stats.leakedConnections + Cardinality(Leaked(clients, now))]_vars

Empty ==
    /\ clients = <<>>
    /\ activeClients = {}
    /\ idleClients = <<>>
    /\ waitingQueue = <<>>

\* the clients the pool holds: listed, active or idle
Held ==
    {clients[i].client : i \in 1..Len(clients)}
        \cup activeClients
        \cup {idleClients[i] : i \in 1..Len(idleClients)}

\* a caller makes a new acquire() call
NewAcquire == \E r \in Acquires : acq[r].pc = "new" /\ acq'[r].pc # "new"

\* C15: when close() completes, every client the pool holds has been
\* disconnected and the client list, the active set, the idle set and the
\* waiting queue are empty; from then on no maintenance run starts, and the
\* four collections stay empty until a new acquire() call is made.
C15_ClosedStaysEmpty ==
    [][/\ closing.pc # "closed" /\ closing'.pc = "closed" =>
             /\ Held \subseteq closing'.clients
             /\ Empty'
       /\ closing.pc # "open" => maint'.next = maint.next
       /\ closing.pc = "closed" /\ Empty /\ ~NewAcquire => Empty']_vars

\* C16: a pool whose initial creation has ended takes an acquire() call only
\* with its min clients: an initial client that failed to connect stops the
\* construction with an error, and the pool does not go on serving with fewer
\* than min clients.
C16_InitFailureIsFatal ==
    [][(/\ initPc = "done"
        /\ \E r \in Acquires : acq[r].pc = "new" /\ acq'[r].pc \notin {"new", "rejected"})
          => Len(clients) >= options.min]_vars

C18_LastErrorVerbatim ==
    \A i \in Inits : init[i].pc = "failed" => init[i].thrown = init[i].lastError

\* the args of operation o break a rule: take is greater than the maximum
\* page size, or the objects of args nest deeper than the maximum depth
BreaksRule(o) ==
    /\ op[o].defined
    /\ \/ op[o].take > validation.maxLimit
       \/ 1 + op[o].nesting > validation.maxDepth

\* C19: an operation whose args break a validation rule fails with the
\* validation error, its query is never invoked, and the step that fails it
\* adds exactly one to the manager's error counter and emits exactly one
\* query-error event.
C19_ValidationFailsFast ==
    /\ [](\A o \in Ops :
            (op[o].pc # "new" /\ BreaksRule(o)) =>
                /\ op[o].pc = "failed"
                /\ op[o].error \in {"limit", "depth"}
                /\ op[o].invoked = 0)
    /\ [][\A o \in Ops :
            (op[o].pc = "new" /\ op'[o].pc # "new" /\ BreaksRule(o)') =>
                /\ managerStats'.errors = managerStats.errors + 1
                /\ managerStats'.queryErrorEvents = managerStats.queryErrorEvents + 1]_vars

C19_Witness ==
    \E o, n \in Ops :
        /\ op[o].pc = "failed" /\ op[o].error = "depth" /\ op[o].invoked = 0
        /\ op[n].pc = "failed" /\ op[n].error = "limit" /\ op[n].invoked = 0
        /\ managerStats.errors = 2
        /\ managerStats.queryErrorEvents = 2

\* C20: a caller that has saved a value whose JSON text is no larger than
\* maxFileSize, and has then loaded the key, has got that value.
C20_SaveLoadRoundTrip ==
    \A r \in RoundTrips :
        (rt[r].pc = "loaded" /\ byteLength(stringify(rt[r].value)) <= maxFileSize) =>
            rt[r].loaded = rt[r].value

\* C21: every client of the active set and of the idle set is in the client
\* list: maintenance does not drop (after disconnecting it) a client that is
\* on loan to a caller.
C21_LoanedClientsStayListed ==
    /\ \A c \in activeClients : FindClientInfo(clients, c) # 0
    /\ \A i \in 1..Len(idleClients) : FindClientInfo(clients, idleClients[i]) # 0

\* acquire() r has been called and has neither resolved nor rejected
Pending(r) == acq[r].pc \in {"creating", "waiting"}

\* the timeout of the waiting acquire() r falls within the time of the model
TimeoutInSight(r) == acq[r].start + options.acquireTimeout < MaxTime

\* C22: every acquire() call that is creating its client or waiting in the
\* queue settles (it resolves with a client or rejects), also when close() is
\* called meanwhile.
C22_AcquireSettles ==
    \A r \in Acquires : (Pending(r) /\ TimeoutInSight(r)) ~> ~Pending(r)

\* Since when the client of info i has been idle: since release() put it into
\* the idle set, or, for a client that was never acquired, since its creation
\* (which is what lastActive still holds then).
IdleSince(cls, i) ==
    IF cls[i].releasedAt # 0 THEN cls[i].releasedAt ELSE cls[i].lastActive

\* maintenance() goes to its await of $disconnect() for a client in this step
DisconnectBegins ==
    /\ maint'.pc = "disconnecting"
    /\ maint.pc = "idle" \/ maint'.snapshot # maint.snapshot

\* C23: the client a maintenance tick sends to $disconnect() is in the idle
\* set and has been idle, counted from its last release (from its creation if
\* it was never acquired), longer than idleTimeout.
C23_ReclaimsOnlyLongIdle ==
    [][DisconnectBegins =>
          LET c == Head(maint'.snapshot)
              i == FindClientInfo(clients', c)
          IN /\ \E k \in 1..Len(idleClients') : idleClients'[k] = c
             /\ i # 0
             /\ maint'.now - IdleSince(clients', i) > options.idleTimeout]_vars

\* the clients of the list that are checked out and have been for longer than
\* leakDetectionThreshold at time t
CheckedOutTooLong(t) ==
    {i \in Leaked(clients, t) : clients[i].client \in activeClients}

\* C24: a maintenance tick counts a leaked connection only for a client that
\* is checked out at that tick: leakedConnections grows by no more than the
\* number of active clients held beyond the threshold, and a released client
\* in the idle set is not counted.
C24_LeakOnlyForCheckedOut ==
    [][stats'.leakedConnections - stats.leakedConnections
          <= Cardinality(CheckedOutTooLong(now))]_vars

\* C25: while an acquire request waits in the queue the idle set is empty,
\* whatever the interleaving of the initialisation of the constructor,
\* acquire, release and maintenance.
C25_NoIdleClientWhileWaiting ==
    waitingQueue # <<>> => idleClients = <<>>

(***************************************************************************)
(* Claims about the refresh timers, delete() and the persistence directory *)
(***************************************************************************)

\* delete() call c, made after the warm-up pass, has returned and no get()
\* for its key was called after it (the calls are numbered as they are made;
\* set() and prewarm() are not called in SpecRefresh)
DeleteStands(c) ==
    /\ call[c].kind = "delete"
    /\ call[c].pc = "done"
    /\ ~call[c].during
    /\ \A d \in RefreshCalls :
          (d > c /\ call[d].kind = "get") => call[d].key # call[c].key

\* C26: after delete(key) has returned the key has no entry in memory, no
\* refresh timer and no file, and none comes back before get() is called for
\* the key again, also when a refresh tick or the fetch of a get() for the key
\* was in flight when delete() was called.
C26_DeleteRemovesEverything ==
    \A c \in RefreshCalls :
        DeleteStands(c) =>
            /\ indexOf(cache, call[c].key) = 0
            /\ refreshIntervals[call[c].key] = 0
            /\ \A t \in timers : t.key # call[c].key
            /\ fileIndex(files, getFilePath(call[c].key)) = 0

\* the warm-up pass is over: Promise.all of line 174 has settled
WarmupComplete == warmupPromise # "pending"

\* C27: after warm-up every spec that declares a refreshInterval has exactly
\* one timer running for its key, the one registered for the key, whether
\* its first fetch succeeded or failed (as long as nobody deletes the key).
C27_OneRefreshTimerPerSpec ==
    WarmupComplete =>
        \A w \in DOMAIN warm :
            (/\ warm[w].refreshInterval # 0
             /\ \A c \in RefreshCalls :
                   call[c].kind = "delete" => call[c].key # warm[w].key)
            => /\ Cardinality({t \in timers : t.key = warm[w].key}) = 1
               /\ \E t \in timers : t.id = refreshIntervals[warm[w].key]

\* C28: when a save() has completed, the persistence directory holds at most
\* maxFiles files.
C28_AtMostMaxFilesAfterSave ==
    [][\A r \in RoundTrips :
          (rt[r].pc = "write" /\ rt'[r].pc = "saved") =>
              Len(files') <= persistenceOptions.maxFiles]_vars

\* C29: distinct keys are kept in distinct files. (1) The write of a save()
\* leaves the file of every other key as it is. (2) load(key) returns nothing
\* but a value that was saved under key.
C29_DistinctKeysDistinctFiles ==
    [][\A r \in RoundTrips :
          /\ (rt[r].pc = "write" /\ rt'[r].pc = "saved") =>
                \A i \in 1..Len(files) :
                    files[i].key # rt[r].key =>
                        \E j \in 1..Len(files') : files'[j] = files[i]
          /\ (rt[r].pc # "loaded" /\ rt'[r].pc = "loaded") =>
                LET i == fileIndex(files, getFilePath(rt[r].key))
                IN i # 0 => files[i].key = rt[r].key]_vars

\* C30: initializePrisma() connects at most one client: the calls that have
\* returned all hold the same client, also those made before the first one
\* had finished connecting, and every connected client is the module's client.
C30_OneClientConnected ==
    /\ Cardinality(connections) <= 1
    /\ \A i, h \in Inits :
          (init[i].pc = "returned" /\ init[h].pc = "returned") =>
              init[i].client = init[h].client
    /\ \A c \in connections : c = prismaClient

====
